---- MODULE Spec2Model ----
(***************************************************************************)
(* Urban heat/cold vulnerability assessment: the two PHP endpoints         *)
(* (get_risk_statistics.php, get_latest_temperatures.php) and the client   *)
(* (teampage.js) that draws the risk layers from their responses.          *)
(*                                                                         *)
(* Numbers.  Temperatures are integers (one unit = one step of the         *)
(* thermometer; a z-score does not depend on the unit).  A mean is the     *)
(* exact rational mn/md and a standard deviation is the exact square root  *)
(* of the rational vn/vd, so every comparison with a threshold is decided  *)
(* exactly by cross-multiplying squares.  Floating-point rounding of the   *)
(* PHP and JavaScript doubles is not modelled.                             *)
(***************************************************************************)
EXTENDS Integers, Sequences, FiniteSets, TLC

\* ------------------------------------------------------------------ bounds
MaxTemp == 1
MaxElderly == 1
MaxIngest == 2
BulkRows == 9

\* ------------------------------------------------------- program constants
ToleranceMinutes == 1
MinObservations == 10

Tracts == {1, 2}
\* the collection rounds of the history, each outside the window of the next, and two
\* later minutes, one minute apart, at which the collection job writes
HistoryTimes == {k * (ToleranceMinutes + 1) : k \in 0..(BulkRows - 1)}
LastHistory == (BulkRows - 1) * (ToleranceMinutes + 1)
IngestTimes == {LastHistory + ToleranceMinutes + 1, LastHistory + ToleranceMinutes + 2}
Times == HistoryTimes \cup IngestTimes
Temps == 0..MaxTemp
\* the rows the table can hold: the history of tract 1 at temperature 0, and the new rows
HistoryRows == {1} \X HistoryTimes \X {0}
Rows == HistoryRows \cup (Tracts \X IngestTimes \X Temps)
Tiers == {"extreme", "very_high", "high", "elevated"}
NoTier == "none"

\* ------------------------------------------------------------- arithmetic
Abs(x) == IF x < 0 THEN -x ELSE x

RECURSIVE Gcd(_, _)
Gcd(a, b) == IF b = 0 THEN Abs(a) ELSE Gcd(Abs(b), Abs(a) % Abs(b))

Max2(a, b) == IF a >= b THEN a ELSE b

RECURSIVE SumSet(_, _)
\* sum of f[x] over the finite set S
SumSet(S, f) ==
    IF S = {} THEN 0
    ELSE LET x == CHOOSE y \in S : TRUE IN f[x] + SumSet(S \ {x}, f)

MaxSet(S) == CHOOSE x \in S : \A y \in S : y <= x
MinSet(S) == CHOOSE x \in S : \A y \in S : x <= y

(* x/sqrt(vn/vd) >= y for integers x, y and a variance vn/vd > 0 *)
OverSigmaGe(x, y, vn, vd) ==
    LET g == Max2(Gcd(x, y), 1)
        h == Max2(Gcd(vn, vd), 1)
        xr == x \div g
        yr == y \div g
        n == vn \div h
        d == vd \div h
    IN  IF yr <= 0
        THEN xr >= 0 \/ xr * xr * d <= yr * yr * n
        ELSE xr > 0 /\ xr * xr * d >= yr * yr * n

(* A PHP float of the report: the real number a/(b*sigma) + c/d, where     *)
(* sigma is the historic standard deviation; b > 0, d > 0.                  *)
Num(a, b, c, d) == [a |-> a, b |-> b, c |-> c, d |-> d]
Rat(c, d) == Num(0, 1, c, d)

\* x >= p/q  (q > 0), with sigma^2 = vn/vd
NumGe(x, p, q, vn, vd) ==
    IF x.a = 0 THEN x.c * q >= p * x.d
    ELSE OverSigmaGe(x.a * q * x.d, (p * x.d - x.c * q) * x.b, vn, vd)

\* x <= p/q
NumLe(x, p, q, vn, vd) == NumGe(Num(-x.a, x.b, -x.c, x.d), -p, q, vn, vd)

NumAbs(x) == IF x.a < 0 \/ (x.a = 0 /\ x.c < 0) THEN Num(-x.a, x.b, -x.c, x.d) ELSE x

\* x * (p/q)
NumScale(x, p, q) == Num(x.a * p, x.b * q, x.c * p, x.d * q)

\* x + y where x has no rational part and y no sigma part
NumAdd(x, y) == Num(x.a, x.b, y.c, y.d)


\* ------------------------------------------------------------------ state
VARIABLES
    store,      \* temperature_observations: number of rows per <<tract_id, observed_at, temperature_f>>
    dbUp,       \* the PostgreSQL server accepts connections
    elderly,    \* census_tracts.elderly_65plus per tract_id
    geoAge,     \* Old_Age_65plus per feature of 2020tractsage_with_age.geojson
    ingested,   \* rows written by the collection job since the start
    pc,         \* position of initializeSystem (teampage.js)
    riskResp,   \* last response of get_risk_statistics.php
    latestResp, \* last response of get_latest_temperatures.php
    historicBaseline,        \* teampage.js global
    cumulativeDeviationData, \* teampage.js global
    currentTemperatureData,  \* teampage.js global
    layers,     \* the six risk layers: per feature the tier drawn, or "null" for no layer
    unit,       \* a single classification run on a hand-made baseline and snapshot
    maps,       \* landclass2.js: the views of map2018 and map2024, syncInProgress and its timers
    search      \* landclass2.js: the search box, its timer, the requests in flight and the result list

vars == <<store, dbUp, elderly, geoAge, ingested, pc, riskResp, latestResp,
          historicBaseline, cumulativeDeviationData, currentTemperatureData, layers, unit,
          maps, search>>

\* the variables of the temperature pipeline and its page
pipeline == <<store, dbUp, elderly, geoAge, ingested, pc, riskResp, latestResp,
              historicBaseline, cumulativeDeviationData, currentTemperatureData, layers, unit>>

Null == -1

\* ------------------------------------------------------------ SQL helpers
\* every tract of the model lies in the study area (tract_id LIKE '36061%')
Residential(e) == {r \in Rows : e[r[1]] > 0}
Present(st, S) == {r \in S : st[r] > 0}
\* COUNT(*), SUM(temperature_f) and SUM(temperature_f ^ 2) over the rows of S
CountRows(st, S) == SumSet(Present(st, S), st)
SumTemp(st, S) == SumSet({r \in S : st[r] > 0 /\ r[3] # 0}, [r \in S |-> st[r] * r[3]])
SumTempSq(st, S) == SumSet({r \in S : st[r] > 0 /\ r[3] # 0}, [r \in S |-> st[r] * r[3] * r[3]])
OfTract(S, t) == {r \in S : r[1] = t}

\* the newest observed_at of the whole table, residential or not
LatestTimeUnjoined(st, e) ==
    LET P == Present(st, Rows)
    IN  IF P = {} THEN Null ELSE MaxSet({r[2] : r \in P})

\* SELECT MAX(t.observed_at) ... WHERE c.elderly_65plus > 0
LatestTime(st, e) ==
    LET P == Present(st, Residential(e))
    IN  IF P = {} THEN Null ELSE MaxSet({r[2] : r \in P})

\* SELECT AVG(t.temperature_f), STDDEV(t.temperature_f) ... ; floatval() of both.
\* STDDEV of PostgreSQL is the sample deviation and NULL on one row, which floatval turns into 0.
HistoricBaseline(st, e) ==
    LET S == Residential(e)
        n == CountRows(st, S)
        s == SumTemp(st, S)
        q == n * SumTempSq(st, S) - s * s
    IN  IF n >= 2 THEN [mn |-> s, md |-> n, vn |-> q, vd |-> n * (n - 1)]
        ELSE [mn |-> s, md |-> Max2(n, 1), vn |-> 0, vd |-> 1]

\* rows with observed_at within one minute of :latest_time, residential only
InWindow(e, latest) ==
    {r \in Residential(e) :
        r[2] >= latest - ToleranceMinutes /\ r[2] <= latest + ToleranceMinutes}

RECURSIVE Repeat(_, _)
Repeat(x, n) == IF n = 0 THEN <<>> ELSE <<x>> \o Repeat(x, n - 1)

RECURSIVE FetchAll(_, _, _)
\* the result set of a query as PHP sees it: one array element per row
FetchAll(st, e, S) ==
    IF S = {} THEN <<>>
    ELSE LET r == CHOOSE x \in S : \A y \in S :
                     x[1] < y[1] \/ (x[1] = y[1] /\ (x[2] < y[2] \/ (x[2] = y[2] /\ x[3] <= y[3])))
         IN  Repeat([tract_id |-> r[1], temperature_f |-> r[3], elderly_count |-> e[r[1]]], st[r])
             \o FetchAll(st, e, S \ {r})

CurrentData(st, e, latest) == FetchAll(st, e, Present(st, InWindow(e, latest)))

\* --------------------------------------------- classification of the snapshot
EmptyGroups == [t \in Tiers |-> [count |-> 0, elderly |-> 0]]

AddTo(groups, tier, e) ==
    IF tier = NoTier THEN groups
    ELSE [groups EXCEPT ![tier] = [count |-> @.count + 1, elderly |-> @.elderly + e]]

\* the division without its guard: a zero deviation gives +-INF (or NAN for 0/0)
ZScoreUnguarded(temp, B) == Num(B.md * temp - B.mn, B.md, 0, 1)

\* $zScore = ($historicStdDev > 0) ? ($temp - $historicMean) / $historicStdDev : 0
ZScore(temp, B) ==
    IF B.vn > 0 THEN Num(B.md * temp - B.mn, B.md, 0, 1) ELSE Rat(0, 1)

\* $elderlyScore = ($maxElderly > 0) ? $elderly / $maxElderly : 0
ElderlyScore(e, maxElderly) ==
    IF maxElderly > 0 THEN Rat(e, maxElderly) ELSE Rat(0, 1)

\* the chain with the bodies of its second and third branch exchanged
DeviationTierExchanged(z, B) ==
    IF NumGe(z, 2, 1, B.vn, B.vd) THEN "extreme"
    ELSE IF NumGe(z, 3, 2, B.vn, B.vd) THEN "high"
    ELSE IF NumGe(z, 1, 1, B.vn, B.vd) THEN "very_high"
    ELSE IF NumGe(z, 1, 2, B.vn, B.vd) THEN "elevated"
    ELSE NoTier

\* the if / elseif chain on a z-score (or its absolute value)
DeviationTier(z, B) ==
    IF NumGe(z, 2, 1, B.vn, B.vd) THEN "extreme"
    ELSE IF NumGe(z, 3, 2, B.vn, B.vd) THEN "very_high"
    ELSE IF NumGe(z, 1, 1, B.vn, B.vd) THEN "high"
    ELSE IF NumGe(z, 1, 2, B.vn, B.vd) THEN "elevated"
    ELSE NoTier

\* the two weights exchanged
RiskScoreWeightsSwapped(z, es) == NumAdd(NumScale(z, 2, 5), NumScale(es, 3, 5))

\* $riskScore = ($zScore * 0.6) + ($elderlyScore * 0.4)
RiskScore(z, es) == NumAdd(NumScale(z, 3, 5), NumScale(es, 2, 5))

\* the if / elseif chain on a risk score
VulnerabilityTier(risk, B) ==
    IF NumGe(risk, 3, 2, B.vn, B.vd) THEN "extreme"
    ELSE IF NumGe(risk, 6, 5, B.vn, B.vd) THEN "very_high"
    ELSE IF NumGe(risk, 9, 10, B.vn, B.vd) THEN "high"
    ELSE IF NumGe(risk, 1, 2, B.vn, B.vd) THEN "elevated"
    ELSE NoTier

\* the vulnerability branch taken whatever the z-score
HeatGateOpen(z, B) == TRUE

\* if ($zScore >= 0.5) { ... } and if ($zScore <= -0.5) { ... }
HeatGate(z, B) == NumGe(z, 1, 2, B.vn, B.vd)

\* the cold branch entered on the magnitude of z
ColdGateOnMagnitude(z, B) == NumGe(NumAbs(z), 1, 2, B.vn, B.vd)

ColdGate(z, B) == NumLe(z, -1, 2, B.vn, B.vd)

\* the loop body with the two vulnerability chains outside the blocks of the z-score tests
ClassifyTractVulnerabilityUngated(acc, tract, B, maxElderly) ==
    LET temp == tract.temperature_f
        e == tract.elderly_count
        zScore == ZScore(temp, B)
        elderlyScore == ElderlyScore(e, maxElderly)
        absZScore == NumAbs(zScore)
    IN  [heatDeviation |->
            IF HeatGate(zScore, B) THEN AddTo(acc.heatDeviation, DeviationTier(zScore, B), e)
            ELSE acc.heatDeviation,
         heatVulnerability |->
            AddTo(acc.heatVulnerability, VulnerabilityTier(RiskScore(zScore, elderlyScore), B), e),
         coldDeviation |->
            IF ColdGate(zScore, B) THEN AddTo(acc.coldDeviation, DeviationTier(absZScore, B), e)
            ELSE acc.coldDeviation,
         coldVulnerability |->
            AddTo(acc.coldVulnerability, VulnerabilityTier(RiskScore(absZScore, elderlyScore), B), e)]

\* one pass of the foreach body over $tract
ClassifyTract(acc, tract, B, maxElderly) ==
    LET temp == tract.temperature_f
        e == tract.elderly_count
        zScore == ZScore(temp, B)
        elderlyScore == ElderlyScore(e, maxElderly)
        hot == HeatGate(zScore, B)
        cold == ColdGate(zScore, B)
        absZScore == NumAbs(zScore)
    IN  [heatDeviation |->
            IF hot THEN AddTo(acc.heatDeviation, DeviationTier(zScore, B), e)
            ELSE acc.heatDeviation,
         heatVulnerability |->
            IF hot THEN AddTo(acc.heatVulnerability,
                              VulnerabilityTier(RiskScore(zScore, elderlyScore), B), e)
            ELSE acc.heatVulnerability,
         coldDeviation |->
            IF cold THEN AddTo(acc.coldDeviation, DeviationTier(absZScore, B), e)
            ELSE acc.coldDeviation,
         coldVulnerability |->
            IF cold THEN AddTo(acc.coldVulnerability,
                               VulnerabilityTier(RiskScore(absZScore, elderlyScore), B), e)
            ELSE acc.coldVulnerability]

RECURSIVE ClassifyFrom(_, _, _, _, _)
ClassifyFrom(acc, data, i, B, maxElderly) ==
    IF i > Len(data) THEN acc
    ELSE ClassifyFrom(ClassifyTract(acc, data[i], B, maxElderly), data, i + 1, B, maxElderly)

\* $maxElderly = max(array_column($currentData, 'elderly_count'))
MaxElderlyOf(data) == MaxSet({data[i].elderly_count : i \in 1..Len(data)})

\* section 4 of get_risk_statistics.php
ClassifyCurrent(data, B) ==
    ClassifyFrom([heatDeviation |-> EmptyGroups, coldDeviation |-> EmptyGroups,
                  heatVulnerability |-> EmptyGroups, coldVulnerability |-> EmptyGroups],
                 data, 1, B, MaxElderlyOf(data))

\* ------------------------------------------------ cumulative aggregation
\* (t.temperature_f - $historicMean) / NULLIF($historicStdDev, 0) >= 0.5 ; NULL is not true
SqlHot(temp, B) == B.vn > 0 /\ NumGe(Num(B.md * temp - B.mn, B.md, 0, 1), 1, 2, B.vn, B.vd)
\* the cold test with the sign of its threshold lost
SqlColdSignSlip(temp, B) == B.vn > 0 /\ NumLe(Num(B.md * temp - B.mn, B.md, 0, 1), 1, 2, B.vn, B.vd)

SqlCold(temp, B) == B.vn > 0 /\ NumLe(Num(B.md * temp - B.mn, B.md, 0, 1), -1, 2, B.vn, B.vd)

\* the average taken over the exceeding rows only
CumulativeHeatRiskHotOnly(st, S, B) ==
    LET H == {r \in Present(st, S) : SqlHot(r[3], B)}
    IN  Num(SumSet(H, [r \in S |-> st[r] * (B.md * r[3] - B.mn)]),
            B.md * Max2(CountRows(st, H), 1), 0, 1)

\* AVG(CASE WHEN z >= 0.5 THEN z ELSE 0 END) over the rows S of one tract
CumulativeHeatRisk(st, S, B) ==
    LET H == {r \in Present(st, S) : SqlHot(r[3], B)}
    IN  Num(SumSet(H, [r \in S |-> st[r] * (B.md * r[3] - B.mn)]),
            B.md * CountRows(st, S), 0, 1)

\* AVG(CASE WHEN z <= -0.5 THEN ABS(z) ELSE 0 END)
CumulativeColdRisk(st, S, B) ==
    LET C == {r \in Present(st, S) : SqlCold(r[3], B)}
    IN  Num(SumSet(C, [r \in S |-> st[r] * Abs(B.md * r[3] - B.mn)]),
            B.md * CountRows(st, S), 0, 1)

\* COUNT(CASE WHEN z >= 0.5 THEN 1 END)::float / NULLIF(COUNT(*), 0)
HeatFrequency(st, S, B) ==
    [n |-> CountRows(st, {r \in Present(st, S) : SqlHot(r[3], B)}), d |-> CountRows(st, S)]

ColdFrequency(st, S, B) ==
    [n |-> CountRows(st, {r \in Present(st, S) : SqlCold(r[3], B)}), d |-> CountRows(st, S)]

\* the grouping without its HAVING clause
ReportedTractsNoFloor(st, e) ==
    {t \in Tracts : e[t] > 0 /\ CountRows(st, OfTract(Rows, t)) >= 1}

\* GROUP BY t.tract_id, c.tract_name, c.elderly_65plus HAVING COUNT(*) >= 10
ReportedTracts(st, e) ==
    {t \in Tracts : e[t] > 0 /\ CountRows(st, OfTract(Rows, t)) >= MinObservations}

\* one group of the tract query: the rows S of tract t, whose elderly_65plus is eld
TractGroup(st, S, t, eld, B) ==
    [tract_id |-> t,
     elderly_65plus |-> eld,
     total_observations |-> CountRows(st, S),
     max_temp |-> MaxSet({r[3] : r \in Present(st, S)}),
     min_temp |-> MinSet({r[3] : r \in Present(st, S)}),
     cumulative_heat_risk |-> CumulativeHeatRisk(st, S, B),
     cumulative_cold_risk |-> CumulativeColdRisk(st, S, B),
     heat_frequency |-> HeatFrequency(st, S, B),
     cold_frequency |-> ColdFrequency(st, S, B)]

TractRow(st, e, t, B) == TractGroup(st, OfTract(Rows, t), t, e[t], B)

RECURSIVE OrderByTract(_, _, _, _)
\* ORDER BY t.tract_id ; fetchAll
OrderByTract(st, e, T, B) ==
    IF T = {} THEN <<>>
    ELSE LET t == MinSet(T) IN <<TractRow(st, e, t, B)>> \o OrderByTract(st, e, T \ {t}, B)

TractCumulativeData(st, e, B) == OrderByTract(st, e, ReportedTracts(st, e), B)

\* the tiers without their upper bounds
InCumulativeTierUnbounded(risk, tier, B) ==
    CASE tier = "extreme" -> NumGe(risk, 2, 1, B.vn, B.vd)
      [] tier = "very_high" -> NumGe(risk, 3, 2, B.vn, B.vd)
      [] tier = "high" -> NumGe(risk, 1, 1, B.vn, B.vd)
      [] tier = "elevated" -> NumGe(risk, 1, 2, B.vn, B.vd)

\* cumulative_heat_risk >= lo AND cumulative_heat_risk < hi, per tier
InCumulativeTier(risk, tier, B) ==
    CASE tier = "extreme" -> NumGe(risk, 2, 1, B.vn, B.vd)
      [] tier = "very_high" -> NumGe(risk, 3, 2, B.vn, B.vd) /\ ~NumGe(risk, 2, 1, B.vn, B.vd)
      [] tier = "high" -> NumGe(risk, 1, 1, B.vn, B.vd) /\ ~NumGe(risk, 3, 2, B.vn, B.vd)
      [] tier = "elevated" -> NumGe(risk, 1, 2, B.vn, B.vd) /\ ~NumGe(risk, 1, 1, B.vn, B.vd)

\* the heat_stats subquery: one row per reported tract
HeatStatsRows(st, e, B) ==
    {[tract_id |-> t, elderly_65plus |-> e[t],
      risk |-> CumulativeHeatRisk(st, OfTract(Rows, t), B)] : t \in ReportedTracts(st, e)}

ColdStatsRows(st, e, B) ==
    {[tract_id |-> t, elderly_65plus |-> e[t],
      risk |-> CumulativeColdRisk(st, OfTract(Rows, t), B)] : t \in ReportedTracts(st, e)}

\* COUNT(CASE WHEN ... THEN 1 END) and SUM(CASE WHEN ... THEN elderly_65plus ELSE 0 END) per tier
CumulativeStats(rows, B) ==
    [tier \in Tiers |->
        LET T == {r \in rows : InCumulativeTier(r.risk, tier, B)}
        IN  [tracts |-> Cardinality(T), elderly |-> SumSet(T, [r \in T |-> r.elderly_65plus])]]

CumulativeHeatStats(st, e, B) == CumulativeStats(HeatStatsRows(st, e, B), B)
CumulativeColdStats(st, e, B) == CumulativeStats(ColdStatsRows(st, e, B), B)

\* ------------------------------------------------------ report assembly
\* round($x, 2) of the mean mn/md >= 0, in hundredths
Round2Mean(B) == (200 * B.mn + B.md) \div (2 * B.md)

\* the square root cut off after two decimals
Round2SqrtTruncated(vn, vd) ==
    Cardinality({r \in 1..(100 * MaxTemp) : r * r * vd <= 10000 * vn})

\* round($x, 2) of the square root of vn/vd, in hundredths
Round2Sqrt(vn, vd) ==
    Cardinality({r \in 1..(100 * MaxTemp) : (2 * r - 1) * (2 * r - 1) * vd <= 40000 * vn})

\* section 7: COUNT(*), COUNT(DISTINCT t.tract_id), MIN / MAX(observed_at); no elderly filter
Overall(st) ==
    LET P == Present(st, Rows)
    IN  [total_observations |-> CountRows(st, P),
         total_tracts |-> Cardinality({r[1] : r \in P}),
         data_start |-> MinSet({r[2] : r \in P}),
         data_end |-> MaxSet({r[2] : r \in P})]

\* $variance = array_sum($squaredDiffs) / count($squaredDiffs) over $temperatures, as
\* the rational (n * sum of squares - sum^2) / n^2
CurrentVariance(data) ==
    LET I == 1..Len(data)
        s == SumSet(I, [i \in I |-> data[i].temperature_f])
        ss == SumSet(I, [i \in I |-> data[i].temperature_f * data[i].temperature_f])
    IN  [vn |-> Len(data) * ss - s * s, vd |-> Len(data) * Len(data)]

NotRequested == [http |-> 0, success |-> FALSE]

\* catch (PDOException $e): new PDO(...) throws when the server cannot be reached
DatabaseError == [http |-> 500, success |-> FALSE, error |-> "Database error"]

\* get_risk_statistics.php once the connection is made, without the fields read by LIMIT 1
GetRiskStatistics(st, e) ==
    LET latestTime == LatestTime(st, e)
        B == HistoricBaseline(st, e)
        currentData == CurrentData(st, e, latestTime)
        counts == ClassifyCurrent(currentData, B)
        temperatures == {currentData[i].temperature_f : i \in 1..Len(currentData)}
        mean == Round2Mean(B)
        stddev == Round2Sqrt(B.vn, B.vd)
        variance == CurrentVariance(currentData)
    IN  IF latestTime = Null
        THEN [http |-> 200, success |-> FALSE, error |-> "No temperature data available"]
        ELSE [http |-> 200, success |-> TRUE,
              timestamp |-> latestTime,
              baseline |-> B,
              snapshot |-> currentData,
              current_stats |-> [std_dev |-> Round2Sqrt(variance.vn, variance.vd),
                                 min_temp |-> MinSet(temperatures),
                                 max_temp |-> MaxSet(temperatures)],
              historic_baseline |-> [mean |-> mean, stddev |-> stddev],
              heat_deviation |-> counts.heatDeviation,
              cold_deviation |-> counts.coldDeviation,
              heat_vulnerability |-> counts.heatVulnerability,
              cold_vulnerability |-> counts.coldVulnerability,
              cumulative_heat_stats |-> CumulativeHeatStats(st, e, B),
              cumulative_cold_stats |-> CumulativeColdStats(st, e, B),
              overall |-> Overall(st),
              global_averages |-> [temperature |-> mean, stddev_temp |-> stddev],
              tracts |-> TractCumulativeData(st, e, B)]

\* SELECT t.tract_id ... WHERE t.temperature_f = (SELECT MAX / MIN ...) LIMIT 1 and
\* ... ORDER BY t.temperature_f DESC / ASC LIMIT 1: without a further ORDER BY any row
\* of P at that temperature can be the one returned
LimitOne(P, temp) == {[tract_id |-> r[1], temp |-> temp] : r \in {x \in P : x[3] = temp}}

\* sections 8 and 9: the all-time extremes of the residential rows and the hottest and
\* coldest tract of the snapshot
ExtremeTracts(st, e, latestTime) ==
    LET R == Present(st, Residential(e))
        W == Present(st, InWindow(e, latestTime))
        allTimeMax == MaxSet({r[3] : r \in R})
        allTimeMin == MinSet({r[3] : r \in R})
    IN  {[all_time_extremes |-> [max_temp |-> allTimeMax, min_temp |-> allTimeMin,
                                 hottest_tract_id |-> ah.tract_id,
                                 coldest_tract_id |-> ac.tract_id],
          hottest_tract |-> h,
          coldest_tract |-> c] :
            ah \in LimitOne(R, allTimeMax), ac \in LimitOne(R, allTimeMin),
            h \in LimitOne(W, MaxSet({r[3] : r \in W})),
            c \in LimitOne(W, MinSet({r[3] : r \in W}))}

\* the bodies get_risk_statistics.php can send once the connection is made
GetRiskStatisticsResponses(st, e) ==
    LET body == GetRiskStatistics(st, e)
    IN  IF body.success THEN {x @@ body : x \in ExtremeTracts(st, e, body.timestamp)}
        ELSE {body}

\* ---------------------------------------------- get_latest_temperatures.php
\* the rows of tract t with the greatest observed_at
NewestOf(P, t) == {r \in P : r[1] = t /\ \A x \in P : x[1] = t => x[2] <= r[2]}

RECURSIVE DistinctOn(_, _, _)
\* SELECT DISTINCT ON (t.tract_id) ... ORDER BY t.tract_id, t.observed_at DESC and the
\* while loop that fills $data: per tract one of its rows with the greatest observed_at
\* (which one is not determined), in the order of tract_id
DistinctOn(P, e, T) ==
    IF T = {} THEN {<<>>}
    ELSE LET t == MinSet(T)
         IN  {<<[tract_id |-> t, temperature_f |-> r[3], observed_at |-> r[2],
                 elderly_65plus |-> e[t]]>> \o rest :
                  r \in NewestOf(P, t), rest \in DistinctOn(P, e, T \ {t})}

\* if (!$conn) { ... exit; }
ConnectionFailed == [http |-> 500, success |-> FALSE, error |-> "Database connection failed"]

\* $stats and the success body built from $data
LatestBody(lastUpdate, data) ==
    LET temps == {data[i].temperature_f : i \in 1..Len(data)}
    IN  [http |-> 200, success |-> TRUE,
         last_update |-> lastUpdate,
         data_count |-> Len(data),
         statistics |-> [min_temp |-> IF temps # {} THEN MinSet(temps) ELSE Null,
                         max_temp |-> IF temps # {} THEN MaxSet(temps) ELSE Null,
                         total_tracts |-> Len(data)],
         data |-> data]

\* the script without its test of $lastUpdate['last_update']
GetLatestTemperaturesUnchecked(st, e) ==
    LET P == Present(st, Rows)
    IN  {LatestBody(IF P = {} THEN Null ELSE MaxSet({r[2] : r \in P}), data) :
            data \in DistinctOn(P, e, {r[1] : r \in P})}

\* the responses get_latest_temperatures.php can give once the connection is made
GetLatestTemperatures(st, e) ==
    LET P == Present(st, Rows)
    IN  IF P = {}
        THEN {[http |-> 200, success |-> FALSE, error |-> "No temperature data available"]}
        ELSE {LatestBody(MaxSet({r[2] : r \in P}), data) :
                 data \in DistinctOn(P, e, {r[1] : r \in P})}

\* ------------------------------------------------------------- teampage.js
\* a JavaScript number: a rational n/d (d > 0), NaN, Infinity or -Infinity
JsNum(n, d) == [k |-> "num", n |-> n, d |-> d]
JsNaN == [k |-> "nan", n |-> 0, d |-> 1]
JsInf == [k |-> "inf", n |-> 0, d |-> 1]
JsNegInf == [k |-> "ninf", n |-> 0, d |-> 1]

\* n / d with d >= 0
JsDiv(n, d) ==
    IF d > 0 THEN JsNum(n, d)
    ELSE IF n > 0 THEN JsInf ELSE IF n < 0 THEN JsNegInf ELSE JsNaN

JsGe(x, p, q) == (x.k = "num" /\ x.n * q >= p * x.d) \/ x.k = "inf"
JsLe(x, p, q) == (x.k = "num" /\ x.n * q <= p * x.d) \/ x.k = "ninf"
JsLt(x, p, q) == (x.k = "num" /\ x.n * q < p * x.d) \/ x.k = "ninf"

JsAbs(x) == IF x.k = "ninf" THEN JsInf ELSE IF x.k = "num" THEN JsNum(Abs(x.n), x.d) ELSE x

\* calculateZScore(value, mean, stdDev), arguments in hundredths
CalculateZScore(value, mean, stdDev) ==
    IF stdDev = 0 THEN JsNum(0, 1) ELSE JsDiv(value - mean, stdDev)

\* (z * 0.6) + (elderlyScore * 0.4) for z >= 0
JsRiskScore(z, es) ==
    IF z.k = "nan" \/ es.k = "nan" THEN JsNaN
    ELSE IF z.k = "inf" \/ es.k = "inf" THEN JsInf
    ELSE JsNum(3 * z.n * es.d + 2 * es.n * z.d, 5 * z.d * es.d)

JsVulnerabilityColor(riskScore) ==
    IF JsGe(riskScore, 3, 2) THEN "extreme"
    ELSE IF JsGe(riskScore, 6, 5) THEN "very_high"
    ELSE IF JsGe(riskScore, 9, 10) THEN "high"
    ELSE IF JsGe(riskScore, 1, 2) THEN "elevated"
    ELSE NoTier

NoLayer == [created |-> FALSE, tier |-> [t \in Tracts |-> NoTier]]
Layer(f) == [created |-> TRUE, tier |-> f]

\* currentTemperatureData.find(d => d.tractId === tractId)
Find(data, t) ==
    LET I == {i \in 1..Len(data) : data[i].tractId = t}
    IN  IF I = {} THEN 0 ELSE MinSet(I)

\* Math.max(...manhattanBoundary.features.map(f => f.properties.Old_Age_65plus || 0))
MaxElderlyOfBoundary(age) == MaxSet({age[t] : t \in Tracts})

\* the z-score a vulnerability layer computes for one temperature
LayerZScore(temp, hb) == JsDiv(100 * temp - hb.mean, hb.stdDev)

HeatVulnerabilityStyle(t, data, hb, age) ==
    LET i == Find(data, t)
        zScore == LayerZScore(data[i].temp_f, hb)
        elderlyScore == JsDiv(age[t], MaxElderlyOfBoundary(age))
    IN  IF i # 0 /\ JsGe(zScore, 1, 2)
        THEN JsVulnerabilityColor(JsRiskScore(zScore, elderlyScore))
        ELSE NoTier

ColdVulnerabilityStyle(t, data, hb, age) ==
    LET i == Find(data, t)
        zScore == LayerZScore(data[i].temp_f, hb)
        elderlyScore == JsDiv(age[t], MaxElderlyOfBoundary(age))
    IN  IF i # 0 /\ JsLe(zScore, -1, 2)
        THEN JsVulnerabilityColor(JsRiskScore(JsAbs(zScore), elderlyScore))
        ELSE NoTier

\* the layer built without waiting for the baseline
CreateHeatVulnerabilityLayerSDUnloaded(data, hb, age) ==
    IF Len(data) = 0 THEN NoLayer
    ELSE Layer([t \in Tracts |-> HeatVulnerabilityStyle(t, data, hb, age)])

\* if (!manhattanBoundary || !currentTemperatureData.length) return null;
\* if (!historicBaseline.loaded) return null;
CreateHeatVulnerabilityLayerSD(data, hb, age) ==
    IF Len(data) = 0 \/ ~hb.loaded THEN NoLayer
    ELSE Layer([t \in Tracts |-> HeatVulnerabilityStyle(t, data, hb, age)])

CreateColdVulnerabilityLayerSD(data, hb, age) ==
    IF Len(data) = 0 \/ ~hb.loaded THEN NoLayer
    ELSE Layer([t \in Tracts |-> ColdVulnerabilityStyle(t, data, hb, age)])

\* the snapshot's own mean and calculateStandardDeviation(temps), as n, sum and n*sumsq - sum^2
SnapshotMoments(data) ==
    LET I == 1..Len(data)
        s == SumSet(I, [i \in I |-> data[i].temp_f])
        ss == SumSet(I, [i \in I |-> data[i].temp_f * data[i].temp_f])
    IN  [n |-> Len(data), s |-> s, q |-> Len(data) * ss - s * s]

\* zScore = (tempData.temp_f - mean) / stdDev, then the chain of returns
HeatDeviationStyle(t, data) ==
    LET i == Find(data, t)
        m == SnapshotMoments(data)
        zScore == Num(m.n * data[i].temp_f - m.s, 1, 0, 1)
    IN  IF i = 0 \/ m.q = 0 THEN NoTier
        ELSE IF NumGe(zScore, 2, 1, m.q, 1) THEN "extreme"
        ELSE IF NumGe(zScore, 3, 2, m.q, 1) THEN "very_high"
        ELSE IF NumGe(zScore, 1, 1, m.q, 1) THEN "high"
        ELSE IF NumGe(zScore, 1, 2, m.q, 1) THEN "elevated"
        ELSE NoTier

ColdDeviationStyle(t, data) ==
    LET i == Find(data, t)
        m == SnapshotMoments(data)
        zScore == Num(m.n * data[i].temp_f - m.s, 1, 0, 1)
    IN  IF i = 0 \/ m.q = 0 THEN NoTier
        ELSE IF NumLe(zScore, -2, 1, m.q, 1) THEN "extreme"
        ELSE IF NumLe(zScore, -3, 2, m.q, 1) THEN "very_high"
        ELSE IF NumLe(zScore, -1, 1, m.q, 1) THEN "high"
        ELSE IF NumLe(zScore, -1, 2, m.q, 1) THEN "elevated"
        ELSE NoTier

CreateHeatDeviationLayerSD(data) ==
    IF Len(data) = 0 THEN NoLayer ELSE Layer([t \in Tracts |-> HeatDeviationStyle(t, data)])

CreateColdDeviationLayerSD(data) ==
    IF Len(data) = 0 THEN NoLayer ELSE Layer([t \in Tracts |-> ColdDeviationStyle(t, data)])

\* tractData = cumulativeDeviationData.find(d => d.tract_id === geoid), then the colour
CumulativeStyle(t, cd, heat) ==
    LET I == {i \in 1..Len(cd.tracts) : cd.tracts[i].tract_id = t}
        row == cd.tracts[MinSet(I)]
        avgZ == IF heat THEN row.cumulative_heat_risk ELSE row.cumulative_cold_risk
        freq == IF heat THEN row.heat_frequency ELSE row.cold_frequency
    IN  IF I = {} THEN NoTier
        ELSE IF ~NumGe(avgZ, 3, 10, cd.vn, cd.vd) \/ 10 * freq.n < freq.d THEN NoTier
        ELSE IF NumGe(avgZ, 2, 1, cd.vn, cd.vd) THEN "extreme"
        ELSE IF NumGe(avgZ, 3, 2, cd.vn, cd.vd) THEN "very_high"
        ELSE IF NumGe(avgZ, 1, 1, cd.vn, cd.vd) THEN "high"
        ELSE "elevated"

CreateCumulativeHeatLayer(cd) == Layer([t \in Tracts |-> CumulativeStyle(t, cd, TRUE)])
CreateCumulativeColdLayer(cd) == Layer([t \in Tracts |-> CumulativeStyle(t, cd, FALSE)])

\* ------------------------------------------------------------ unit runs
\* a baseline of mean 40.0 and deviation 5.0 (or 0) in half degrees, one observation of
\* tract 1 beside a neutral one of tract 2, and a history of nine neutral rows and one row
\* at that temperature
UnitBaselines == {[mn |-> 80, md |-> 1, vn |-> 100, vd |-> 1], [mn |-> 80, md |-> 1, vn |-> 0, vd |-> 1]}
UnitTemps == 58..122
UnitElderly == 1..5

UnitSnapshot(t, e) ==
    <<[tract_id |-> 1, temperature_f |-> t, elderly_count |-> e],
      [tract_id |-> 2, temperature_f |-> 80, elderly_count |-> 5]>>

UnitHistory(t) == (<<1, 0, 80>> :> 9) @@ (<<1, 1, t>> :> 1)

\* a round in which only tract 1 is observed, while the boundary file also holds tract 2
\* with five elderly residents
UnitLone(t, e) == <<[tract_id |-> 1, temperature_f |-> t, elderly_count |-> e]>>
UnitLoneData(t, e) == <<[tractId |-> 1, temp_f |-> t, elderlyCount |-> e]>>
UnitBoundary(e) == [t \in Tracts |-> IF t = 1 THEN e ELSE 5]

\* historicBaseline after fetchRiskStatistics on the unit's baseline, in hundredths
UnitLoaded(B) == [mean |-> 8000, stdDev |-> IF B.vn = 0 THEN 0 ELSE 1000, loaded |-> TRUE]

\* ten rows at that temperature: the history of a tract that is always that warm
UnitSteady(t) == (<<1, 0, t>> :> 10)

\* the tract query over two groups: tract 1 with the steady history and the unit's
\* elderly count, tract 2 with the history of nine neutral rows and one at the temperature
UnitCumulative(t, e, B) ==
    <<TractGroup(UnitSteady(t), DOMAIN UnitSteady(t), 1, e, B),
      TractGroup(UnitHistory(t), DOMAIN UnitHistory(t), 2, 5, B)>>

\* the heat_stats and cold_stats subqueries over these two groups
UnitStatsRows(t, e, B, heat) ==
    {[tract_id |-> UnitCumulative(t, e, B)[i].tract_id,
      elderly_65plus |-> UnitCumulative(t, e, B)[i].elderly_65plus,
      risk |-> IF heat THEN UnitCumulative(t, e, B)[i].cumulative_heat_risk
                       ELSE UnitCumulative(t, e, B)[i].cumulative_cold_risk] : i \in 1..2}

NoUnit == [on |-> FALSE]

\* ------------------------------------------------- the land class page
\* landclass2.js: two maps kept on the same view, and a location search box
MIN_ZOOM == 12
MAX_ZOOM == 15
DEFAULT_ZOOM == 13
MinQueryLength == 3

\* bounds: the centres a map can be moved to (0 is DEFAULT_CENTER) and the number of
\* searchLocation calls of a run
MaxCentre == 1
MaxSearches == 2

MapNames == {"map2018", "map2024"}
Centres == 0..MaxCentre
Views == Centres \X (MIN_ZOOM..MAX_ZOOM)
OtherMap(m) == IF m = "map2018" THEN "map2024" ELSE "map2018"

\* both maps after setView(DEFAULT_CENTER, DEFAULT_ZOOM); setViews counts the calls of
\* target.setView made for the latest moveend
StartMaps ==
    [view |-> [m \in MapNames |-> <<0, DEFAULT_ZOOM>>],
     syncInProgress |-> FALSE, timers |-> 0, setViews |-> 0]

RECURSIVE SyncMaps(_, _)
\* syncMaps(source, target), run by the moveend of source. target.setView(..., {animate:
\* false}) fires the moveend of target before it returns, which runs syncMaps(target, source).
SyncMaps(s, source) ==
    IF ~s.syncInProgress
    THEN LET moved == [s EXCEPT !.syncInProgress = TRUE,
                                !.view[OtherMap(source)] = s.view[source],
                                !.setViews = @ + 1]
             echoed == SyncMaps(moved, OtherMap(source))
         IN  [echoed EXCEPT !.timers = @ + 1]
    ELSE s

\* what the user can type: the first letters of a place name; the name a result carries
Word == <<"a", "t", "l", "a">>
Queries == {SubSeq(Word, 1, n) : n \in 2..Len(Word)}
ResultName == <<"A", "t", "l", "a", "n", "t", "a">>

\* the page after DOMContentLoaded: an empty search box, no timer, the list hidden.
\* calls numbers the searchLocation calls; applied is the number of the latest call
\* whose outcome (a hidden list, or its results) the list has shown.
StartSearch ==
    [input |-> <<>>, searchTimeout |-> FALSE, calls |-> 0, pending |-> {},
     list |-> [active |-> FALSE, seq |-> 0, found |-> FALSE], applied |-> 0]

\* searchLocation(query) up to its await: hide the list, or send the request
SearchLocation(s, query) ==
    IF Len(query) < MinQueryLength
    THEN [s EXCEPT !.calls = @ + 1, !.list.active = FALSE, !.applied = s.calls + 1]
    ELSE [s EXCEPT !.calls = @ + 1,
                   !.pending = @ \cup {[seq |-> s.calls + 1, query |-> query]}]

\* displaySearchResults(results) for the response to request r: the results, or "No
\* results found", and the list is shown
DisplaySearchResults(s, r, found) ==
    [s EXCEPT !.pending = @ \ {r},
              !.list = [active |-> TRUE, seq |-> r.seq, found |-> found],
              !.applied = Max2(@, r.seq)]

\* --------------------------------------------------------------- actions
NoBaseline == [mean |-> Null, stdDev |-> Null, loaded |-> FALSE]
NoCumulative == [declared |-> FALSE, tracts |-> <<>>, vn |-> 0, vd |-> 1]
NoLayers == [heatVulnerability |-> NoLayer, coldVulnerability |-> NoLayer,
             heatDeviation |-> NoLayer, coldDeviation |-> NoLayer,
             cumulativeHeat |-> NoLayer, cumulativeCold |-> NoLayer]

\* the table with the history of tract 1 (one row per round), or empty
BulkStore(history) == [r \in Rows |-> IF history /\ r \in HistoryRows THEN 1 ELSE 0]

InitSystem ==
    /\ elderly \in [Tracts -> 0..MaxElderly]
    /\ geoAge \in {elderly, [t \in Tracts |-> 0]}
    /\ \E history \in BOOLEAN : store = BulkStore(history)
    /\ dbUp \in BOOLEAN
    /\ ingested = 0
    /\ pc = "idle"
    /\ riskResp = NotRequested
    /\ latestResp = NotRequested
    /\ historicBaseline = NoBaseline
    /\ cumulativeDeviationData = NoCumulative
    /\ currentTemperatureData = <<>>
    /\ layers = NoLayers
    /\ unit = NoUnit
    /\ maps = StartMaps
    /\ search = StartSearch

InitUnit ==
    /\ elderly = [t \in Tracts |-> 0]
    /\ geoAge = [t \in Tracts |-> 0]
    /\ store = [r \in Rows |-> 0]
    /\ dbUp = TRUE
    /\ ingested = 0
    /\ pc = "unit"
    /\ riskResp = NotRequested
    /\ latestResp = NotRequested
    /\ historicBaseline = NoBaseline
    /\ cumulativeDeviationData = NoCumulative
    /\ currentTemperatureData = <<>>
    /\ layers = NoLayers
    /\ \E B \in UnitBaselines, t \in UnitTemps, e \in UnitElderly :
          unit = [on |-> TRUE, done |-> FALSE, B |-> B, temp |-> t, e |-> e]
    /\ maps = StartMaps
    /\ search = StartSearch

Init == InitSystem \/ InitUnit

\* the collection job writes one observation
Ingest(t, at, temp) ==
    /\ pc = "idle"
    /\ dbUp
    /\ ingested < MaxIngest
    /\ store' = [store EXCEPT ![<<t, at, temp>>] = @ + 1]
    /\ ingested' = ingested + 1
    /\ UNCHANGED <<maps, search, dbUp, elderly, geoAge, pc, riskResp, latestResp, historicBaseline,
                   cumulativeDeviationData, currentTemperatureData, layers, unit>>

\* await fetchRiskStatistics()
FetchRiskStatistics ==
    /\ pc = "idle"
    /\ \E data \in (IF dbUp THEN GetRiskStatisticsResponses(store, elderly) ELSE {DatabaseError}) :
          /\ riskResp' = data
          /\ historicBaseline' =
                IF data.success
                THEN [mean |-> data.global_averages.temperature,
                      stdDev |-> data.global_averages.stddev_temp,
                      loaded |-> TRUE]
                ELSE historicBaseline
    /\ pc' = "statistics"
    /\ UNCHANGED <<maps, search, store, dbUp, elderly, geoAge, ingested, latestResp,
                   cumulativeDeviationData, currentTemperatureData, layers, unit>>

\* await fetchCumulativeDeviations()
FetchCumulativeDeviations ==
    /\ pc = "statistics"
    /\ \E data \in (IF dbUp THEN GetRiskStatisticsResponses(store, elderly) ELSE {DatabaseError}) :
          /\ riskResp' = data
          /\ cumulativeDeviationData' =
                IF data.success
                THEN [declared |-> TRUE, tracts |-> data.tracts,
                      vn |-> data.baseline.vn, vd |-> data.baseline.vd]
                ELSE cumulativeDeviationData
    /\ pc' = "cumulative"
    /\ UNCHANGED <<maps, search, store, dbUp, elderly, geoAge, ingested, latestResp,
                   historicBaseline, currentTemperatureData, layers, unit>>

\* result.data.map(item => ({...})) of fetchTemperatureData
MapItems(data) ==
    [i \in 1..Len(data) |->
        [tractId |-> data[i].tract_id, temp_f |-> data[i].temperature_f,
         elderlyCount |-> data[i].elderly_65plus]]

\* currentTemperatureData = await fetchTemperatureData()
FetchTemperatureData ==
    /\ pc = "cumulative"
    /\ \E result \in (IF dbUp THEN GetLatestTemperatures(store, elderly) ELSE {ConnectionFailed}) :
          /\ latestResp' = result
          /\ currentTemperatureData' = IF result.success THEN MapItems(result.data) ELSE <<>>
    /\ pc' = "temperatures"
    /\ UNCHANGED <<maps, search, store, dbUp, elderly, geoAge, ingested, riskResp,
                   historicBaseline, cumulativeDeviationData, layers, unit>>

\* the six create...Layer calls; reading the never-assigned cumulativeDeviationData throws
CreateLayers ==
    /\ pc = "temperatures"
    /\ LET first == [NoLayers EXCEPT
                !.heatVulnerability =
                    CreateHeatVulnerabilityLayerSD(currentTemperatureData, historicBaseline, geoAge),
                !.coldVulnerability =
                    CreateColdVulnerabilityLayerSD(currentTemperatureData, historicBaseline, geoAge),
                !.heatDeviation = CreateHeatDeviationLayerSD(currentTemperatureData),
                !.coldDeviation = CreateColdDeviationLayerSD(currentTemperatureData)]
       IN  IF cumulativeDeviationData.declared
           THEN /\ layers' = [first EXCEPT
                        !.cumulativeHeat = CreateCumulativeHeatLayer(cumulativeDeviationData),
                        !.cumulativeCold = CreateCumulativeColdLayer(cumulativeDeviationData)]
                /\ pc' = "initialized"
           ELSE /\ layers' = first
                /\ pc' = "failed"
    /\ UNCHANGED <<maps, search, store, dbUp, elderly, geoAge, ingested, riskResp, latestResp,
                   historicBaseline, cumulativeDeviationData, currentTemperatureData, unit>>

\* the classification loop, calculateZScore and the cumulative averages on the unit's inputs
RunUnit ==
    /\ pc = "unit"
    /\ ~unit.done
    /\ unit' = [unit EXCEPT
            !.done = TRUE] @@
            [counts |-> ClassifyCurrent(UnitSnapshot(unit.temp, unit.e), unit.B),
             calculated |-> CalculateZScore(100 * unit.temp, 100 * 80,
                                            IF unit.B.vn = 0 THEN 0 ELSE 100 * 10),
             heat_risk |-> CumulativeHeatRisk(UnitHistory(unit.temp), DOMAIN UnitHistory(unit.temp), unit.B),
             cold_risk |-> CumulativeColdRisk(UnitHistory(unit.temp), DOMAIN UnitHistory(unit.temp), unit.B),
             heat_frequency |-> HeatFrequency(UnitHistory(unit.temp), DOMAIN UnitHistory(unit.temp), unit.B),
             cold_frequency |-> ColdFrequency(UnitHistory(unit.temp), DOMAIN UnitHistory(unit.temp), unit.B),
             lone_counts |-> ClassifyCurrent(UnitLone(unit.temp, unit.e), unit.B),
             heatVulnerability |-> CreateHeatVulnerabilityLayerSD(
                 UnitLoneData(unit.temp, unit.e), UnitLoaded(unit.B), UnitBoundary(unit.e)),
             coldVulnerability |-> CreateColdVulnerabilityLayerSD(
                 UnitLoneData(unit.temp, unit.e), UnitLoaded(unit.B), UnitBoundary(unit.e)),
             tracts |-> UnitCumulative(unit.temp, unit.e, unit.B),
             cumulative_heat_stats |-> CumulativeStats(UnitStatsRows(unit.temp, unit.e, unit.B, TRUE), unit.B),
             cumulative_cold_stats |-> CumulativeStats(UnitStatsRows(unit.temp, unit.e, unit.B, FALSE), unit.B),
             cumulativeHeat |-> CreateCumulativeHeatLayer(
                 [declared |-> TRUE, tracts |-> UnitCumulative(unit.temp, unit.e, unit.B),
                  vn |-> unit.B.vn, vd |-> unit.B.vd]),
             cumulativeCold |-> CreateCumulativeColdLayer(
                 [declared |-> TRUE, tracts |-> UnitCumulative(unit.temp, unit.e, unit.B),
                  vn |-> unit.B.vn, vd |-> unit.B.vd])]
    /\ UNCHANGED <<maps, search, store, dbUp, elderly, geoAge, ingested, pc, riskResp, latestResp,
                   historicBaseline, cumulativeDeviationData, currentTemperatureData, layers>>

Next ==
    \/ \E t \in Tracts, at \in IngestTimes, temp \in Temps : Ingest(t, at, temp)
    \/ FetchRiskStatistics
    \/ FetchCumulativeDeviations
    \/ FetchTemperatureData
    \/ CreateLayers
    \/ RunUnit

Spec == Init /\ [][Next]_vars

\* ---------------------------------------------- actions of the land class page
InitPage ==
    /\ elderly = [t \in Tracts |-> 0]
    /\ geoAge = [t \in Tracts |-> 0]
    /\ store = [r \in Rows |-> 0]
    /\ dbUp = TRUE
    /\ ingested = 0
    /\ pc = "landclass"
    /\ riskResp = NotRequested
    /\ latestResp = NotRequested
    /\ historicBaseline = NoBaseline
    /\ cumulativeDeviationData = NoCumulative
    /\ currentTemperatureData = <<>>
    /\ layers = NoLayers
    /\ unit = NoUnit
    /\ maps = StartMaps
    /\ search = StartSearch

\* the user drags or zooms map m to another view; its moveend runs syncMaps
UserMove(m, v) ==
    /\ pc = "landclass"
    /\ v # maps.view[m]
    /\ maps' = SyncMaps([maps EXCEPT !.view[m] = v, !.setViews = 0], m)
    /\ UNCHANGED <<pipeline, search>>

\* setTimeout(() => (syncInProgress = false), 100)
SyncTimeout ==
    /\ pc = "landclass"
    /\ maps.timers > 0
    /\ maps' = [maps EXCEPT !.syncInProgress = FALSE, !.timers = @ - 1]
    /\ UNCHANGED <<pipeline, search>>

\* the input handler: clearTimeout(searchTimeout); searchTimeout = setTimeout(..., 300)
Input(q) ==
    /\ pc = "landclass"
    /\ search.calls < MaxSearches
    /\ q # search.input
    /\ search' = [search EXCEPT !.input = q, !.searchTimeout = TRUE]
    /\ UNCHANGED <<pipeline, maps>>

\* the timer of the input handler fires: searchLocation(e.target.value)
SearchTimeout ==
    /\ pc = "landclass"
    /\ search.searchTimeout
    /\ search' = SearchLocation([search EXCEPT !.searchTimeout = FALSE], search.input)
    /\ UNCHANGED <<pipeline, maps>>

\* a response arrives, whichever was asked first: displaySearchResults(results)
SearchResponse(r, found) ==
    /\ pc = "landclass"
    /\ r \in search.pending
    /\ search' = DisplaySearchResults(search, r, found)
    /\ UNCHANGED <<pipeline, maps>>

\* fetch or response.json() rejects: catch (error), nothing is displayed
SearchError(r) ==
    /\ pc = "landclass"
    /\ r \in search.pending
    /\ search' = [search EXCEPT !.pending = @ \ {r}]
    /\ UNCHANGED <<pipeline, maps>>

\* a click outside .search-wrapper
ClickOutside ==
    /\ pc = "landclass"
    /\ search.list.active
    /\ search' = [search EXCEPT !.list.active = FALSE]
    /\ UNCHANGED <<pipeline, maps>>

\* a click on a result at centre c: both maps are set to it (map2018 first, each with its
\* moveend), the box takes the result's name and the list is hidden
ClickResult(c) ==
    /\ pc = "landclass"
    /\ search.list.active /\ search.list.found
    /\ maps' = SyncMaps(
                  SyncMaps([maps EXCEPT !.view = [m \in MapNames |-> <<c, DEFAULT_ZOOM>>],
                                        !.setViews = 0], "map2018"),
                  "map2024")
    /\ search' = [search EXCEPT !.input = ResultName, !.list.active = FALSE]
    /\ UNCHANGED pipeline

NextPage ==
    \/ \E m \in MapNames, v \in Views : UserMove(m, v)
    \/ SyncTimeout
    \/ \E q \in Queries : Input(q)
    \/ SearchTimeout
    \/ \E r \in search.pending, found \in BOOLEAN : SearchResponse(r, found)
    \/ \E r \in search.pending : SearchError(r)
    \/ ClickOutside
    \/ \E c \in Centres : ClickResult(c)

SpecPage == InitPage /\ [][NextPage]_vars

\* ------------------------------------------------------------ properties
\* After initializeSystem has left "idle" the store no longer changes, so riskResp and
\* latestResp are answers about the current store.
Statistics == pc \in {"statistics", "cumulative", "temperatures", "initialized", "failed"}
Temperatures == pc \in {"temperatures", "initialized", "failed"}
LayersDrawn == pc \in {"initialized", "failed"}
UnitDone == unit.on /\ unit.done

ZeroGroups(g) == \A tier \in Tiers : g[tier].count = 0 /\ g[tier].elderly = 0
NumIsZero(x) == x.a = 0 /\ x.c = 0

\* the store without the observations of tracts that have elderly_65plus = 0
ResidentialStore == [r \in Rows |-> IF elderly[r[1]] > 0 THEN store[r] ELSE 0]

\* C1: no observation of a tract with elderly_65plus = 0 influences or appears in
\* anything get_risk_statistics.php or get_latest_temperatures.php returns: each
\* response is the one the same store gives once those observations are removed.
C1_ResidentialOnlyEverywhere ==
    /\ (Statistics /\ dbUp) => riskResp \in GetRiskStatisticsResponses(ResidentialStore, elderly)
    /\ (Temperatures /\ dbUp) => latestResp \in GetLatestTemperatures(ResidentialStore, elderly)

\* C2: with a baseline deviation of 0 every z-score is treated as 0 whatever the
\* temperature: calculateZScore returns 0, the classification loop counts no tract in
\* any heat or cold group, and every cumulative risk and frequency is 0.
C2_ZeroStdDevMeansZeroZ ==
    /\ (UnitDone /\ unit.B.vn = 0) =>
          /\ unit.calculated = JsNum(0, 1)
          /\ ZeroGroups(unit.counts.heatDeviation)
          /\ ZeroGroups(unit.counts.coldDeviation)
          /\ ZeroGroups(unit.counts.heatVulnerability)
          /\ ZeroGroups(unit.counts.coldVulnerability)
          /\ NumIsZero(unit.heat_risk) /\ NumIsZero(unit.cold_risk)
          /\ unit.heat_frequency.n = 0 /\ unit.cold_frequency.n = 0
    /\ (riskResp.success /\ riskResp.baseline.vn = 0) =>
          /\ ZeroGroups(riskResp.heat_deviation)
          /\ ZeroGroups(riskResp.cold_deviation)
          /\ ZeroGroups(riskResp.heat_vulnerability)
          /\ ZeroGroups(riskResp.cold_vulnerability)
          /\ \A i \in 1..Len(riskResp.tracts) :
                /\ NumIsZero(riskResp.tracts[i].cumulative_heat_risk)
                /\ NumIsZero(riskResp.tracts[i].cumulative_cold_risk)
                /\ riskResp.tracts[i].heat_frequency.n = 0
                /\ riskResp.tracts[i].cold_frequency.n = 0
          /\ \A tier \in Tiers :
                /\ riskResp.cumulative_heat_stats[tier].tracts = 0
                /\ riskResp.cumulative_cold_stats[tier].tracts = 0

\* a deviation of 0 and a temperature 20 degrees above the mean
C2_Witness == UnitDone /\ unit.B.vn = 0 /\ unit.temp = 120

\* The tier of a non-negative value n/d against the thresholds 2.0, 1.5, 1.0, 0.5
TierOfDeviation(n, d) ==
    IF n >= 2 * d THEN "extreme"
    ELSE IF 2 * n >= 3 * d THEN "very_high"
    ELSE IF n >= d THEN "high"
    ELSE IF 2 * n >= d THEN "elevated"
    ELSE NoTier

\* the z-score of the unit's observation in tenths: (temp - 80) / 10, or 0 on a zero deviation
UnitZ10 == IF unit.B.vn = 0 THEN 0 ELSE unit.temp - 80

\* exactly the group `tier` holds the unit's observation of tract 1 (tract 2 is at the mean)
OnlyIn(groups, tier) ==
    \A g \in Tiers : groups[g] = IF g = tier THEN [count |-> 1, elderly |-> unit.e]
                                 ELSE [count |-> 0, elderly |-> 0]

\* (temp - mean) / stddev of the backend, for a positive deviation
ZOf(temp, B) == Num(B.md * temp - B.mn, B.md, 0, 1)

\* the tier of |z| by the thresholds, highest first; z is a number a/(b*sigma)
TierOfAbsZ(z, B) ==
    LET a == NumAbs(z)
    IN  IF NumGe(a, 2, 1, B.vn, B.vd) THEN "extreme"
        ELSE IF NumGe(a, 3, 2, B.vn, B.vd) THEN "very_high"
        ELSE IF NumGe(a, 1, 1, B.vn, B.vd) THEN "high"
        ELSE IF NumGe(a, 1, 2, B.vn, B.vd) THEN "elevated"
        ELSE NoTier

\* heat / cold deviation tier of one snapshot observation under the baseline B
HeatTierOfRow(row, B) ==
    IF B.vn > 0 /\ NumGe(ZOf(row.temperature_f, B), 1, 2, B.vn, B.vd)
    THEN TierOfAbsZ(ZOf(row.temperature_f, B), B) ELSE NoTier

ColdTierOfRow(row, B) ==
    IF B.vn > 0 /\ NumLe(ZOf(row.temperature_f, B), -1, 2, B.vn, B.vd)
    THEN TierOfAbsZ(ZOf(row.temperature_f, B), B) ELSE NoTier

SnapshotTracts == {riskResp.snapshot[i].tract_id : i \in 1..Len(riskResp.snapshot)}
RowsOfTract(t) == {i \in 1..Len(riskResp.snapshot) : riskResp.snapshot[i].tract_id = t}

\* the tracts of the snapshot that have the tier, heat or cold
HeatTractsIn(tier) ==
    {t \in SnapshotTracts :
        \E i \in RowsOfTract(t) : HeatTierOfRow(riskResp.snapshot[i], riskResp.baseline) = tier}
ColdTractsIn(tier) ==
    {t \in SnapshotTracts :
        \E i \in RowsOfTract(t) : ColdTierOfRow(riskResp.snapshot[i], riskResp.baseline) = tier}

\* the unit's observation is in the heat (cold) deviation group of the tier of |z|,
\* only when z >= 0.5 (z <= -0.5), and in no group otherwise
UnitDeviationTier ==
    UnitDone =>
        /\ OnlyIn(unit.counts.heatDeviation,
                  IF UnitZ10 >= 5 THEN TierOfDeviation(UnitZ10, 10) ELSE NoTier)
        /\ OnlyIn(unit.counts.coldDeviation,
                  IF UnitZ10 <= -5 THEN TierOfDeviation(-UnitZ10, 10) ELSE NoTier)

\* C3: a z-score has the first matching tier of extreme (|z| >= 2.0), very_high
\* (>= 1.5), high (>= 1.0), elevated (>= 0.5), a heat tier only when z >= 0.5 and a
\* cold tier only when z <= -0.5, none in between; and every tract of the snapshot is
\* counted once, in the group of its tier, with its elderly count added to that group only.
C3_DeviationTierAndCount ==
    /\ UnitDeviationTier
    /\ riskResp.success =>
          \A tier \in Tiers :
             /\ riskResp.heat_deviation[tier].count = Cardinality(HeatTractsIn(tier))
             /\ riskResp.heat_deviation[tier].elderly =
                    SumSet(HeatTractsIn(tier), [t \in Tracts |-> elderly[t]])
             /\ riskResp.cold_deviation[tier].count = Cardinality(ColdTractsIn(tier))
             /\ riskResp.cold_deviation[tier].elderly =
                    SumSet(ColdTractsIn(tier), [t \in Tracts |-> elderly[t]])

\* The part of C3 that holds: each observation of the snapshot is counted in the group
\* of its tier and in no other.
C3_PerObservation ==
    /\ UnitDeviationTier
    /\ riskResp.success =>
          LET I == 1..Len(riskResp.snapshot)
              heat == [i \in I |-> HeatTierOfRow(riskResp.snapshot[i], riskResp.baseline)]
              cold == [i \in I |-> ColdTierOfRow(riskResp.snapshot[i], riskResp.baseline)]
          IN  \A tier \in Tiers :
                 LET H == {i \in I : heat[i] = tier}
                     C == {i \in I : cold[i] = tier}
                 IN  /\ riskResp.heat_deviation[tier].count = Cardinality(H)
                     /\ riskResp.heat_deviation[tier].elderly =
                            SumSet(H, [i \in H |-> riskResp.snapshot[i].elderly_count])
                     /\ riskResp.cold_deviation[tier].count = Cardinality(C)
                     /\ riskResp.cold_deviation[tier].elderly =
                            SumSet(C, [i \in C |-> riskResp.snapshot[i].elderly_count])

\* The tier of the score 0.6 * zn/zd + 0.4 * en/ed (zn >= 0, zd > 0, ed > 0) against
\* the thresholds 1.5, 1.2, 0.9, 0.5
TierOfScore(zn, zd, en, ed) ==
    LET n == 3 * zn * ed + 2 * en * zd
        d == 5 * zd * ed
    IN  IF 2 * n >= 3 * d THEN "extreme"
        ELSE IF 5 * n >= 6 * d THEN "very_high"
        ELSE IF 10 * n >= 9 * d THEN "high"
        ELSE IF 2 * n >= d THEN "elevated"
        ELSE NoTier

\* the same for a z-score a/(b*sigma) of the backend and the elderly share e/maxE
TierOfBackendScore(z, e, maxE, B) ==
    LET risk == Num(3 * NumAbs(z).a, 5 * z.b, 2 * e, 5 * maxE)
    IN  IF NumGe(risk, 3, 2, B.vn, B.vd) THEN "extreme"
        ELSE IF NumGe(risk, 6, 5, B.vn, B.vd) THEN "very_high"
        ELSE IF NumGe(risk, 9, 10, B.vn, B.vd) THEN "high"
        ELSE IF NumGe(risk, 1, 2, B.vn, B.vd) THEN "elevated"
        ELSE NoTier

SnapshotMaxElderly ==
    MaxSet({riskResp.snapshot[i].elderly_count : i \in 1..Len(riskResp.snapshot)})

HeatScoreTierOfRow(row, maxE, B) ==
    IF B.vn > 0 /\ NumGe(ZOf(row.temperature_f, B), 1, 2, B.vn, B.vd)
    THEN TierOfBackendScore(ZOf(row.temperature_f, B), row.elderly_count, maxE, B)
    ELSE NoTier

ColdScoreTierOfRow(row, maxE, B) ==
    IF B.vn > 0 /\ NumLe(ZOf(row.temperature_f, B), -1, 2, B.vn, B.vd)
    THEN TierOfBackendScore(ZOf(row.temperature_f, B), row.elderly_count, maxE, B)
    ELSE NoTier

\* what the map shows for the entry d of currentTemperatureData: z from the rounded
\* baseline, the elderly share from the boundary file
ShownZn(d) == 100 * d.temp_f - historicBaseline.mean
GeoMaxElderly == MaxSet({geoAge[t] : t \in Tracts})
ShownHeatTier(d) ==
    IF 2 * ShownZn(d) >= historicBaseline.stdDev
    THEN TierOfScore(ShownZn(d), historicBaseline.stdDev, geoAge[d.tractId], GeoMaxElderly)
    ELSE NoTier
ShownColdTier(d) ==
    IF 2 * ShownZn(d) <= -historicBaseline.stdDev
    THEN TierOfScore(-ShownZn(d), historicBaseline.stdDev, geoAge[d.tractId], GeoMaxElderly)
    ELSE NoTier

VulnerabilityLayersDrawn ==
    /\ LayersDrawn
    /\ layers.heatVulnerability.created
    /\ layers.coldVulnerability.created
    /\ historicBaseline.stdDev > 0

\* C4: a gated observation has riskScore = |z| * 0.6 + elderlyScore * 0.4 with
\* elderlyScore = e / maxElderly, and the first matching tier of extreme (>= 1.5),
\* very_high (>= 1.2), high (>= 0.9), elevated (>= 0.5), none below 0.5, in the backend
\* counts and on the map; mean 40.0, deviation 5.0, t 47.5 and elderlyScore 0.6 give
\* z 1.5, deviation tier very_high, riskScore 1.14 and vulnerability tier high.
C4_RiskScoreAndTier ==
    /\ UnitDone =>
          /\ OnlyIn(unit.counts.heatVulnerability,
                    IF UnitZ10 >= 5 THEN TierOfScore(UnitZ10, 10, unit.e, 5) ELSE NoTier)
          /\ OnlyIn(unit.counts.coldVulnerability,
                    IF UnitZ10 <= -5 THEN TierOfScore(-UnitZ10, 10, unit.e, 5) ELSE NoTier)
    /\ (UnitDone /\ unit.B.vn > 0 /\ unit.temp = 95 /\ unit.e = 3) =>
          /\ unit.calculated = JsNum(1500, 1000)
          /\ OnlyIn(unit.counts.heatDeviation, "very_high")
          /\ 100 * (3 * 15 * 5 + 2 * 3 * 10) = 114 * (5 * 10 * 5)
          /\ OnlyIn(unit.counts.heatVulnerability, "high")
    /\ riskResp.success =>
          LET I == 1..Len(riskResp.snapshot)
              maxE == SnapshotMaxElderly
              heat == [i \in I |-> HeatScoreTierOfRow(riskResp.snapshot[i], maxE, riskResp.baseline)]
              cold == [i \in I |-> ColdScoreTierOfRow(riskResp.snapshot[i], maxE, riskResp.baseline)]
          IN  \A tier \in Tiers :
                 LET H == {i \in I : heat[i] = tier}
                     C == {i \in I : cold[i] = tier}
                 IN  /\ riskResp.heat_vulnerability[tier].count = Cardinality(H)
                     /\ riskResp.heat_vulnerability[tier].elderly =
                            SumSet(H, [i \in H |-> riskResp.snapshot[i].elderly_count])
                     /\ riskResp.cold_vulnerability[tier].count = Cardinality(C)
                     /\ riskResp.cold_vulnerability[tier].elderly =
                            SumSet(C, [i \in C |-> riskResp.snapshot[i].elderly_count])
    /\ (VulnerabilityLayersDrawn /\ GeoMaxElderly > 0) =>
          \A i \in 1..Len(currentTemperatureData) :
             LET d == currentTemperatureData[i]
             IN  /\ layers.heatVulnerability.tier[d.tractId] = ShownHeatTier(d)
                 /\ layers.coldVulnerability.tier[d.tractId] = ShownColdTier(d)

\* the example of the claim, in half degrees: mean 80, deviation 10, t 95, elderly 3 of 5
C4_Witness ==
    /\ UnitDone /\ unit.B.vn > 0 /\ unit.temp = 95 /\ unit.e = 3
    /\ unit.counts.heatVulnerability["high"].count = 1

\* C5: no observation with z < 0.5 is counted or drawn in a heat vulnerability tier
\* and none with z > -0.5 in a cold vulnerability tier, however large its elderly share.
C5_VulnerabilityGate ==
    /\ (UnitDone /\ UnitZ10 < 5) => ZeroGroups(unit.counts.heatVulnerability)
    /\ (UnitDone /\ UnitZ10 > -5) => ZeroGroups(unit.counts.coldVulnerability)
    /\ riskResp.success =>
          LET B == riskResp.baseline
              hot == {i \in 1..Len(riskResp.snapshot) :
                         B.vn > 0 /\ NumGe(ZOf(riskResp.snapshot[i].temperature_f, B), 1, 2, B.vn, B.vd)}
              cold == {i \in 1..Len(riskResp.snapshot) :
                         B.vn > 0 /\ NumLe(ZOf(riskResp.snapshot[i].temperature_f, B), -1, 2, B.vn, B.vd)}
          IN  /\ SumSet(Tiers, [tier \in Tiers |-> riskResp.heat_vulnerability[tier].count])
                    <= Cardinality(hot)
              /\ SumSet(Tiers, [tier \in Tiers |-> riskResp.cold_vulnerability[tier].count])
                    <= Cardinality(cold)
    /\ VulnerabilityLayersDrawn =>
          \A i \in 1..Len(currentTemperatureData) :
             LET d == currentTemperatureData[i]
             IN  /\ 2 * ShownZn(d) < historicBaseline.stdDev
                        => layers.heatVulnerability.tier[d.tractId] = NoTier
                 /\ 2 * ShownZn(d) > -historicBaseline.stdDev
                        => layers.coldVulnerability.tier[d.tractId] = NoTier

\* z = 0.4 with the largest elderly share: the score 0.64 would be a tier, the gate keeps it out
C5_Witness ==
    /\ UnitDone /\ unit.B.vn > 0 /\ unit.temp = 84 /\ unit.e = 5
    /\ ZeroGroups(unit.counts.heatVulnerability)

\* C6: when the largest elderly count is 0 every elderlyScore is 0 and the score is
\* |z| * 0.6, in the backend and in the heat and cold vulnerability layers of the map:
\* a gated tract is drawn in the tier of that score, never left out by an undefined value.
C6_NoElderlyNoError ==
    /\ \A e \in 0..MaxElderly : NumIsZero(ElderlyScore(e, 0))
    /\ (VulnerabilityLayersDrawn /\ GeoMaxElderly = 0) =>
          \A i \in 1..Len(currentTemperatureData) :
             LET d == currentTemperatureData[i]
             IN  /\ layers.heatVulnerability.tier[d.tractId] =
                        IF 2 * ShownZn(d) >= historicBaseline.stdDev
                        THEN TierOfScore(ShownZn(d), historicBaseline.stdDev, 0, 1) ELSE NoTier
                 /\ layers.coldVulnerability.tier[d.tractId] =
                        IF 2 * ShownZn(d) <= -historicBaseline.stdDev
                        THEN TierOfScore(-ShownZn(d), historicBaseline.stdDev, 0, 1) ELSE NoTier

\* the observations of tract t that exceed the threshold under B, hot or cold
HotRowsOf(t, B) ==
    {r \in Rows : r[1] = t /\ store[r] > 0 /\ B.vn > 0
                    /\ NumGe(ZOf(r[3], B), 1, 2, B.vn, B.vd)}
ColdRowsOf(t, B) ==
    {r \in Rows : r[1] = t /\ store[r] > 0 /\ B.vn > 0
                    /\ NumLe(ZOf(r[3], B), -1, 2, B.vn, B.vd)}
ObservationsOf(t) == SumSet({r \in Rows : r[1] = t /\ store[r] > 0}, store)

\* the number x (without rational part) is a / (b * sigma)
SameNum(x, a, b) == x.c = 0 /\ x.a * b = a * x.b

\* C7: cumulative_heat_risk of a reported tract is the sum over all its observations of
\* (z if z >= 0.5 else 0) divided by total_observations, cumulative_cold_risk the same
\* with (|z| if z <= -0.5 else 0); one observation at z = 4.0 among nine at z = 0
\* gives 0.4, not 4.0.
C7_AverageOverAllObservations ==
    /\ riskResp.success =>
          \A i \in 1..Len(riskResp.tracts) :
             LET row == riskResp.tracts[i]
                 B == riskResp.baseline
                 H == HotRowsOf(row.tract_id, B)
                 C == ColdRowsOf(row.tract_id, B)
             IN  /\ row.total_observations = ObservationsOf(row.tract_id)
                 /\ SameNum(row.cumulative_heat_risk,
                            SumSet(H, [r \in Rows |-> store[r] * (B.md * r[3] - B.mn)]),
                            B.md * row.total_observations)
                 /\ SameNum(row.cumulative_cold_risk,
                            SumSet(C, [r \in Rows |-> store[r] * (B.mn - B.md * r[3])]),
                            B.md * row.total_observations)
    /\ (UnitDone /\ unit.B.vn > 0) =>
          /\ SameNum(unit.heat_risk, IF UnitZ10 >= 5 THEN UnitZ10 ELSE 0, 10)
          /\ SameNum(unit.cold_risk, IF UnitZ10 <= -5 THEN -UnitZ10 ELSE 0, 10)
    /\ (UnitDone /\ unit.B.vn > 0 /\ unit.temp = 120) =>
          /\ NumGe(unit.heat_risk, 2, 5, unit.B.vn, unit.B.vd)
          /\ NumLe(unit.heat_risk, 2, 5, unit.B.vn, unit.B.vd)

\* the example of the claim: nine observations at the mean and one at z = 4.0
C7_Witness ==
    /\ UnitDone /\ unit.B.vn > 0 /\ unit.temp = 120
    /\ unit.heat_frequency = [n |-> 1, d |-> 10]

ListedAt(t) == {i \in 1..Len(riskResp.tracts) : riskResp.tracts[i].tract_id = t}

\* C8: a tract with fewer than 10 observations is never in the cumulative tract list
\* nor counted in a cumulative heat or cold tier count or elderly sum; a tract with at
\* least 10 observations is in the list exactly once.
C8_TenObservationFloor ==
    riskResp.success =>
       /\ \A t \in Tracts :
             Cardinality(ListedAt(t)) = IF elderly[t] > 0 /\ ObservationsOf(t) >= 10 THEN 1 ELSE 0
       /\ \A tier \in Tiers :
             LET H == {t \in Tracts : elderly[t] > 0 /\ ObservationsOf(t) >= 10 /\
                          \E i \in ListedAt(t) :
                             InCumulativeTier(riskResp.tracts[i].cumulative_heat_risk, tier,
                                              riskResp.baseline)}
                 C == {t \in Tracts : elderly[t] > 0 /\ ObservationsOf(t) >= 10 /\
                          \E i \in ListedAt(t) :
                             InCumulativeTier(riskResp.tracts[i].cumulative_cold_risk, tier,
                                              riskResp.baseline)}
             IN  /\ riskResp.cumulative_heat_stats[tier] =
                       [tracts |-> Cardinality(H), elderly |-> SumSet(H, elderly)]
                 /\ riskResp.cumulative_cold_stats[tier] =
                       [tracts |-> Cardinality(C), elderly |-> SumSet(C, elderly)]

\* one residential tract with ten observations, listed, beside one left out whose
\* single observation is hot (its average z would be in a tier)
C8_Witness ==
    /\ riskResp.success
    /\ elderly[1] > 0 /\ elderly[2] > 0
    /\ ObservationsOf(1) = 10 /\ ObservationsOf(2) = 1
    /\ HotRowsOf(2, riskResp.baseline) # {}
    /\ Len(riskResp.tracts) = 1 /\ riskResp.tracts[1].tract_id = 1
    /\ \A tier \in Tiers : riskResp.cumulative_heat_stats[tier].tracts = 0

\* the observations of tract t with z strictly between -0.5 and 0.5 (all of them on a
\* zero deviation, where z is taken as 0)
MiddleRowsOf(t, B) ==
    {r \in Rows : r[1] = t /\ store[r] > 0 /\
                  (B.vn > 0 => /\ ~NumGe(ZOf(r[3], B), 1, 2, B.vn, B.vd)
                               /\ ~NumLe(ZOf(r[3], B), -1, 2, B.vn, B.vd))}

\* C9: heat_frequency and cold_frequency of a reported tract lie in [0, 1], no
\* observation is both hot and cold, and the two frequencies and the fraction of
\* observations with z strictly between -0.5 and 0.5 add up to 1.
C9_FrequenciesPartition ==
    /\ riskResp.success =>
          \A i \in 1..Len(riskResp.tracts) :
             LET row == riskResp.tracts[i]
                 B == riskResp.baseline
                 hf == row.heat_frequency
                 cf == row.cold_frequency
                 H == HotRowsOf(row.tract_id, B)
                 C == ColdRowsOf(row.tract_id, B)
             IN  /\ hf.d > 0 /\ 0 <= hf.n /\ hf.n <= hf.d
                 /\ cf.d > 0 /\ 0 <= cf.n /\ cf.n <= cf.d
                 /\ hf.d = row.total_observations /\ cf.d = row.total_observations
                 /\ H \cap C = {}
                 /\ hf.n = SumSet(H, store)
                 /\ cf.n = SumSet(C, store)
                 /\ hf.n + cf.n + SumSet(MiddleRowsOf(row.tract_id, B), store)
                        = row.total_observations
    /\ UnitDone =>
          /\ unit.heat_frequency = [n |-> IF UnitZ10 >= 5 THEN 1 ELSE 0, d |-> 10]
          /\ unit.cold_frequency = [n |-> IF UnitZ10 <= -5 THEN 1 ELSE 0, d |-> 10]

\* a reported tract with some, but not all, of its observations hot
C9_Witness ==
    /\ riskResp.success
    /\ \E i \in 1..Len(riskResp.tracts) :
          /\ riskResp.tracts[i].heat_frequency.n > 0
          /\ riskResp.tracts[i].heat_frequency.n < riskResp.tracts[i].heat_frequency.d

\* C10: the snapshot is the residential observations within one minute of the latest
\* observed_at, reduced to at most one observation per tract, so no tract is counted
\* or has its elderly population added more than once in a count group.
C10_OneObservationPerTract ==
    riskResp.success =>
       /\ \A t \in Tracts :
             (RowsOfTract(t) # {}) <=>
                 /\ elderly[t] > 0
                 /\ \E r \in Rows : /\ r[1] = t /\ store[r] > 0
                                    /\ r[2] >= riskResp.timestamp - 1
                                    /\ r[2] <= riskResp.timestamp + 1
       /\ \A t \in Tracts : Cardinality(RowsOfTract(t)) <= 1
       /\ \A tier \in Tiers :
             /\ riskResp.heat_deviation[tier].count <= Cardinality(SnapshotTracts)
             /\ riskResp.heat_deviation[tier].elderly
                    <= SumSet(SnapshotTracts, elderly)

\* The part of C10 that holds: the snapshot is exactly the residential observations
\* within one minute of the latest residential observed_at.
C10_Window ==
    riskResp.success =>
       /\ riskResp.timestamp = MaxSet({r[2] : r \in {x \in Rows : store[x] > 0 /\ elderly[x[1]] > 0}})
       /\ \A t \in Tracts, temp \in Temps :
             Cardinality({i \in RowsOfTract(t) : riskResp.snapshot[i].temperature_f = temp})
                = IF elderly[t] > 0
                  THEN SumSet({r \in Rows : /\ r[1] = t /\ r[3] = temp /\ store[r] > 0
                                            /\ r[2] >= riskResp.timestamp - 1
                                            /\ r[2] <= riskResp.timestamp + 1}, store)
                  ELSE 0

\* tract t has an observation within the tolerance of the newest observed_at of the table
InLatestRound(t) ==
    \E r \in Rows : /\ r[1] = t /\ store[r] > 0
                    /\ r[2] >= latestResp.last_update - ToleranceMinutes
                    /\ r[2] <= latestResp.last_update + ToleranceMinutes

\* C11: a tract without an observation in the latest collection round is left out of
\* that round: get_latest_temperatures.php returns no older observation for it, and no
\* layer of the map draws it in a tier.
C11_StaleTractExcluded ==
    /\ (Temperatures /\ latestResp.success) =>
          \A i \in 1..Len(latestResp.data) :
             latestResp.data[i].observed_at >= latestResp.last_update - ToleranceMinutes
    /\ (LayersDrawn /\ latestResp.success) =>
          \A t \in Tracts :
             ~InLatestRound(t) =>
                /\ layers.heatVulnerability.tier[t] = NoTier
                /\ layers.coldVulnerability.tier[t] = NoTier
                /\ layers.heatDeviation.tier[t] = NoTier
                /\ layers.coldDeviation.tier[t] = NoTier

\* The part of C11 that holds: the snapshot of get_risk_statistics.php holds no
\* observation older than the tolerance.
C11_SnapshotFresh ==
    riskResp.success =>
       \A t \in Tracts :
          RowsOfTract(t) # {} =>
             \E r \in Rows : /\ r[1] = t /\ store[r] > 0
                             /\ r[2] >= riskResp.timestamp - ToleranceMinutes

\* the responses the two endpoints have given so far
Responses == {resp \in {riskResp, latestResp} : resp.http # 0}

\* C12: every failure of get_risk_statistics.php or get_latest_temperatures.php (no
\* connection, an empty history) is answered by a body {success: false, error: ...}
\* together with an HTTP status outside 200..299.
C12_FailureIsStructuredError ==
    \A resp \in Responses :
       ~resp.success => /\ "error" \in DOMAIN resp
                        /\ resp.http \notin 200..299

\* The part of C12 that holds: a failure is never answered as a success, and a failed
\* connection is answered with status 500.
C12_ConnectionFailure ==
    \A resp \in Responses :
       /\ ~resp.success => "error" \in DOMAIN resp
       /\ ~dbUp => ~resp.success /\ resp.http = 500

\* the table holds no observation of a tract with elderly_65plus > 0
NoResidentialObservations == \A r \in Rows : store[r] > 0 => elderly[r[1]] = 0

\* C13: without any residential observation get_risk_statistics.php fails and computes
\* no classification, and the client stops there: the baseline is never marked as
\* loaded, no zero mean or deviation takes its place, and neither the heat nor the
\* cold vulnerability layer is created.
C13_NoBaselineIsHardStop ==
    /\ (Statistics /\ dbUp /\ NoResidentialObservations) =>
          /\ ~riskResp.success
          /\ DOMAIN riskResp = {"http", "success", "error"}
          /\ ~historicBaseline.loaded
          /\ historicBaseline.mean = Null /\ historicBaseline.stdDev = Null
    /\ (LayersDrawn /\ dbUp /\ NoResidentialObservations) =>
          /\ ~layers.heatVulnerability.created
          /\ ~layers.coldVulnerability.created

\* observations of non-residential tracts only: the map has temperatures to draw, but
\* no baseline
C13_Witness ==
    /\ LayersDrawn /\ dbUp /\ NoResidentialObservations
    /\ Len(currentTemperatureData) > 0
    /\ ~riskResp.success
    /\ ~layers.heatVulnerability.created

C15_RepeatableReads ==
    /\ (Statistics /\ dbUp) => GetRiskStatisticsResponses(store, elderly) = {riskResp}
    /\ (Temperatures /\ dbUp) => GetLatestTemperatures(store, elderly) = {latestResp}

\* The part of C15 that holds: the fields that are not read by LIMIT 1 or DISTINCT ON
\* are the same in every response on the same store.
C15_AggregatesRepeatable ==
    /\ (Statistics /\ dbUp) =>
          \A x \in GetRiskStatisticsResponses(store, elderly) :
             /\ x.success = riskResp.success
             /\ x.success =>
                   \A f \in DOMAIN x \ {"all_time_extremes", "hottest_tract", "coldest_tract"} :
                      x[f] = riskResp[f]
    /\ (Temperatures /\ dbUp) =>
          \A x \in GetLatestTemperatures(store, elderly) :
             /\ x.success = latestResp.success
             /\ x.success =>
                   /\ x.last_update = latestResp.last_update
                   /\ x.data_count = latestResp.data_count

\* m hundredths is the mean mn/md rounded to two decimals (md > 0, mn >= 0)
IsMeanRounded(m, B) == (2 * m - 1) * B.md <= 200 * B.mn /\ 200 * B.mn < (2 * m + 1) * B.md

\* s hundredths is the square root of vn/vd rounded to two decimals
IsSqrtRounded(s, B) ==
    /\ s >= 0
    /\ s > 0 => (2 * s - 1) * (2 * s - 1) * B.vd <= 40000 * B.vn
    /\ 40000 * B.vn < (2 * s + 1) * (2 * s + 1) * B.vd

\* C16: a successful response of get_risk_statistics.php has global_averages, whose
\* temperature and stddev_temp equal historic_baseline.mean and .stddev, both being the
\* baseline mean and deviation rounded to two decimals; the client takes these two
\* values as its baseline.
C16_GlobalAveragesIsBaseline ==
    /\ riskResp.success =>
          /\ "global_averages" \in DOMAIN riskResp
          /\ riskResp.global_averages.temperature = riskResp.historic_baseline.mean
          /\ riskResp.global_averages.stddev_temp = riskResp.historic_baseline.stddev
          /\ IsMeanRounded(riskResp.global_averages.temperature, riskResp.baseline)
          /\ IsSqrtRounded(riskResp.global_averages.stddev_temp, riskResp.baseline)
    /\ (Statistics /\ riskResp.success) =>
          historicBaseline = [mean |-> riskResp.global_averages.temperature,
                              stdDev |-> riskResp.global_averages.stddev_temp,
                              loaded |-> TRUE]

\* a baseline whose deviation is not a whole number of hundredths: ten observations,
\* nine at 0 and one at 1, mean 0.10 and deviation 0.316...
C16_Witness ==
    /\ Statistics /\ riskResp.success
    /\ riskResp.baseline.md = 10 /\ riskResp.baseline.mn = 1
    /\ historicBaseline = [mean |-> 10, stdDev |-> 32, loaded |-> TRUE]

\* none < elevated < high < very_high < extreme
TierRank(tier) ==
    CASE tier = NoTier -> 0
      [] tier = "elevated" -> 1
      [] tier = "high" -> 2
      [] tier = "very_high" -> 3
      [] tier = "extreme" -> 4

\* the group that holds an observation, or none
GroupOf(groups) ==
    IF \E g \in Tiers : groups[g].count > 0
    THEN CHOOSE g \in Tiers : groups[g].count > 0
    ELSE NoTier

\* x < y for two finite JavaScript numbers
JsLess(x, y) == x.k = "num" /\ y.k = "num" /\ x.n * y.d < y.n * x.d

\* C17: for a fixed mean and a deviation > 0 a strictly higher temperature has a
\* strictly higher z-score, the z-score of the mean itself is 0, and a higher z-score
\* never has a lower heat deviation tier (none < elevated < high < very_high < extreme).
C17_ZScoreMonotone ==
    (UnitDone /\ unit.B.vn > 0) =>
       /\ unit.temp = 80 => /\ unit.calculated.k = "num" /\ unit.calculated.n = 0
                             /\ NumIsZero(ZScore(unit.temp, unit.B))
                             /\ GroupOf(unit.counts.heatDeviation) = NoTier
       /\ \A t2 \in UnitTemps :
             t2 > unit.temp =>
                LET z1 == ZScore(unit.temp, unit.B)
                    z2 == ZScore(t2, unit.B)
                    c2 == ClassifyCurrent(UnitSnapshot(t2, unit.e), unit.B)
                IN  /\ JsLess(unit.calculated, CalculateZScore(100 * t2, 100 * 80, 100 * 10))
                    /\ z1.c = 0 /\ z2.c = 0 /\ z1.a * z2.b < z2.a * z1.b
                    /\ TierRank(GroupOf(unit.counts.heatDeviation))
                           <= TierRank(GroupOf(c2.heatDeviation))

\* an observation in the tier elevated (z = 0.7), below temperatures of every higher tier
C17_Witness ==
    /\ UnitDone /\ unit.B.vn > 0 /\ unit.temp = 87
    /\ GroupOf(unit.counts.heatDeviation) = "elevated"
    /\ \E t2 \in UnitTemps :
          t2 > unit.temp /\ DeviationTier(ZScore(t2, unit.B), unit.B) = "extreme"

NothingDrawn(layer) == \A t \in Tracts : layer.tier[t] = NoTier

\* C18: a layer of the map whose stdDev is 0 (the baseline deviation as reported, for
\* the vulnerability layers; the deviation of the snapshot, for the deviation layers)
\* treats every z-score as 0 and draws no tract in a heat or cold tier.
C18_ZeroDeviationDrawsNothing ==
    /\ (LayersDrawn /\ layers.heatVulnerability.created /\ historicBaseline.stdDev = 0) =>
          NothingDrawn(layers.heatVulnerability)
    /\ (LayersDrawn /\ layers.coldVulnerability.created /\ historicBaseline.stdDev = 0) =>
          NothingDrawn(layers.coldVulnerability)
    /\ (LayersDrawn /\ layers.heatDeviation.created
                    /\ SnapshotMoments(currentTemperatureData).q = 0) =>
          NothingDrawn(layers.heatDeviation)
    /\ (LayersDrawn /\ layers.coldDeviation.created
                    /\ SnapshotMoments(currentTemperatureData).q = 0) =>
          NothingDrawn(layers.coldDeviation)

\* The part of C18 that holds: the deviation layers draw nothing when the temperatures
\* of the snapshot are all equal.
C18_DeviationLayers ==
    (LayersDrawn /\ layers.heatDeviation.created /\ layers.coldDeviation.created
                 /\ SnapshotMoments(currentTemperatureData).q = 0) =>
       NothingDrawn(layers.heatDeviation) /\ NothingDrawn(layers.coldDeviation)

\* the residential observations and those of the snapshot, as rows of the store
ResidentialRows == {r \in Rows : store[r] > 0 /\ elderly[r[1]] > 0}
SnapshotRows ==
    {r \in ResidentialRows : /\ r[2] >= riskResp.timestamp - ToleranceMinutes
                              /\ r[2] <= riskResp.timestamp + ToleranceMinutes}

\* sum((temp - mean)^2) / count(temp) over the observations S, as a rational
PopulationVariance(S) ==
    LET n == SumSet(S, store)
        s == SumSet(S, [r \in Rows |-> store[r] * r[3]])
        ss == SumSet(S, [r \in Rows |-> store[r] * r[3] * r[3]])
    IN  [vn |-> n * ss - s * s, vd |-> n * n]

\* C19: the baseline deviation is the population standard deviation of the residential
\* temperatures (squared deviations divided by N, not N - 1), and the deviation of the
\* current snapshot and calculateStandardDeviation of the client use the same formula.
C19_PopulationStdDev ==
    /\ riskResp.success =>
          LET P == PopulationVariance(ResidentialRows)
              W == PopulationVariance(SnapshotRows)
          IN  /\ riskResp.baseline.vn * P.vd = P.vn * riskResp.baseline.vd
              /\ IsSqrtRounded(riskResp.historic_baseline.stddev, P)
              /\ IsSqrtRounded(riskResp.current_stats.std_dev, W)
    /\ Temperatures =>
          LET m == SnapshotMoments(currentTemperatureData)
              I == 1..Len(currentTemperatureData)
          IN  m.q = SumSet(I, [i \in I |->
                        (m.n * currentTemperatureData[i].temp_f - m.s)
                      * (m.n * currentTemperatureData[i].temp_f - m.s)]) \div Max2(m.n, 1)

\* The part of C19 that holds: the deviation of the current snapshot is the
\* population deviation.
C19_SnapshotDeviation ==
    riskResp.success =>
       IsSqrtRounded(riskResp.current_stats.std_dev, PopulationVariance(SnapshotRows))

\* the residential history holds fewer than 2 observations
FewObservations == SumSet(ResidentialRows, store) < 2

\* the deviation is never negative, and is 0 (not null) on fewer than 2 observations, in
\* the report, in the backend's classification and in the client
DegenerateDeviationIsZero ==
    /\ riskResp.success =>
          /\ riskResp.baseline.vn >= 0 /\ riskResp.baseline.vd > 0
          /\ riskResp.historic_baseline.stddev >= 0
          /\ riskResp.global_averages.stddev_temp >= 0
    /\ (riskResp.success /\ FewObservations) =>
          /\ riskResp.baseline.vn = 0
          /\ riskResp.historic_baseline.stddev = 0
          /\ riskResp.global_averages.stddev_temp = 0
          /\ ZeroGroups(riskResp.heat_deviation) /\ ZeroGroups(riskResp.cold_deviation)
          /\ ZeroGroups(riskResp.heat_vulnerability) /\ ZeroGroups(riskResp.cold_vulnerability)
    /\ (Statistics /\ riskResp.success /\ FewObservations) => historicBaseline.stdDev = 0
    /\ Len(currentTemperatureData) < 2 =>
          /\ SnapshotMoments(currentTemperatureData).q = 0
          /\ LayersDrawn => /\ NothingDrawn(layers.heatDeviation)
                             /\ NothingDrawn(layers.coldDeviation)

\* C20: the baseline deviation is never negative, and on a residential history of fewer
\* than 2 observations the deviation used for every z-score is 0, never null or
\* undefined, so that nothing is classified, in the report or on the map.
C20_DegenerateHistoryIsZero ==
    /\ DegenerateDeviationIsZero
    /\ (LayersDrawn /\ riskResp.success /\ FewObservations) =>
          /\ NothingDrawn(layers.heatVulnerability)
          /\ NothingDrawn(layers.coldVulnerability)

\* The part of C20 that holds: everything but the vulnerability layers of the map.
C20_StdDevZeroNotNull == DegenerateDeviationIsZero

\* the tier of a cumulative risk x / sigma by the thresholds 2.0, 1.5, 1.0 and 0.5
RiskTier(risk, B) ==
    IF NumGe(risk, 2, 1, B.vn, B.vd) THEN "extreme"
    ELSE IF NumGe(risk, 3, 2, B.vn, B.vd) THEN "very_high"
    ELSE IF NumGe(risk, 1, 1, B.vn, B.vd) THEN "high"
    ELSE IF NumGe(risk, 1, 2, B.vn, B.vd) THEN "elevated"
    ELSE NoTier

\* the counts and elderly sums of the rows (tract, elderly, risk) bucketed by RiskTier
Bucketed(stats, rows, B) ==
    \A tier \in Tiers :
       LET T == {r \in rows : RiskTier(r.risk, B) = tier}
       IN  /\ stats[tier].tracts = Cardinality(T)
           /\ stats[tier].elderly = SumSet(T, [r \in T |-> r.elderly_65plus])

\* the rows (tract, elderly, risk) of a tract list
RiskRows(tracts, heat) ==
    {[tract_id |-> tracts[i].tract_id, elderly_65plus |-> tracts[i].elderly_65plus,
      risk |-> IF heat THEN tracts[i].cumulative_heat_risk
                       ELSE tracts[i].cumulative_cold_risk] : i \in 1..Len(tracts)}

TierTotal(stats) ==
    stats["extreme"].tracts + stats["very_high"].tracts + stats["high"].tracts
        + stats["elevated"].tracts

\* C21: the cumulative tier counts bucket each reported tract by its cumulative heat
\* (or cold) risk into extreme (>= 2.0), very_high (>= 1.5, < 2.0), high (>= 1.0, < 1.5)
\* and elevated (>= 0.5, < 1.0): a tract is counted in at most one tier per sign, a
\* tract below 0.5 in none, and a tier's elderly sum is the sum of elderly_65plus over
\* exactly the tracts counted in it.
C21_CumulativeTierBuckets ==
    /\ riskResp.success =>
          /\ Bucketed(riskResp.cumulative_heat_stats, RiskRows(riskResp.tracts, TRUE),
                      riskResp.baseline)
          /\ Bucketed(riskResp.cumulative_cold_stats, RiskRows(riskResp.tracts, FALSE),
                      riskResp.baseline)
          /\ TierTotal(riskResp.cumulative_heat_stats) <= Len(riskResp.tracts)
          /\ TierTotal(riskResp.cumulative_cold_stats) <= Len(riskResp.tracts)
    /\ UnitDone =>
          /\ Bucketed(unit.cumulative_heat_stats, RiskRows(unit.tracts, TRUE), unit.B)
          /\ Bucketed(unit.cumulative_cold_stats, RiskRows(unit.tracts, FALSE), unit.B)
          /\ TierTotal(unit.cumulative_heat_stats) <= 1
          /\ TierTotal(unit.cumulative_cold_stats) <= 1
          /\ \A tier \in Tiers :
                /\ unit.cumulative_heat_stats[tier].tracts =
                      IF unit.B.vn > 0 /\ RiskTier(Num(unit.temp - 80, 1, 0, 1), unit.B) = tier
                      THEN 1 ELSE 0
                /\ unit.cumulative_heat_stats[tier].elderly =
                      unit.e * unit.cumulative_heat_stats[tier].tracts
                /\ unit.cumulative_cold_stats[tier].tracts =
                      IF unit.B.vn > 0 /\ RiskTier(Num(80 - unit.temp, 1, 0, 1), unit.B) = tier
                      THEN 1 ELSE 0
                /\ unit.cumulative_cold_stats[tier].elderly =
                      unit.e * unit.cumulative_cold_stats[tier].tracts

\* a tract whose every observation is at z = 2.2 counted as extreme only, with its three
\* elderly, beside a tract of cumulative risk 0.22 counted nowhere
C21_Witness ==
    /\ UnitDone /\ unit.B.vn > 0 /\ unit.temp = 102 /\ unit.e = 3
    /\ unit.cumulative_heat_stats["extreme"] = [tracts |-> 1, elderly |-> 3]
    /\ unit.cumulative_heat_stats["very_high"].tracts = 0
    /\ unit.cumulative_heat_stats["elevated"].tracts = 0

\* the entries of currentTemperatureData that are the snapshot observation i of the report
SameObservation(i) ==
    {j \in 1..Len(currentTemperatureData) :
        /\ currentTemperatureData[j].tractId = riskResp.snapshot[i].tract_id
        /\ currentTemperatureData[j].temp_f = riskResp.snapshot[i].temperature_f}

\* C22: every deviation classification of the current snapshot uses the all-time
\* historic baseline: for the same tract and observation, the heat / cold deviation tier
\* shown by the deviation layers of the map equals the deviation tier under which the
\* backend counted that tract.
C22_DeviationLayersUseBaseline ==
    (LayersDrawn /\ riskResp.success /\ layers.heatDeviation.created
                 /\ layers.coldDeviation.created) =>
       \A i \in 1..Len(riskResp.snapshot) :
          SameObservation(i) # {} =>
             LET t == riskResp.snapshot[i].tract_id
             IN  /\ layers.heatDeviation.tier[t] =
                       HeatTierOfRow(riskResp.snapshot[i], riskResp.baseline)
                 /\ layers.coldDeviation.tier[t] =
                       ColdTierOfRow(riskResp.snapshot[i], riskResp.baseline)

\* C23: in GetRiskStatistics, whenever the latest timestamp is non-null the current
\* snapshot is non-empty, so the snapshot mean, variance, min, max and maxElderly are
\* never computed over zero rows.
C23_SnapshotNonEmpty ==
    /\ LatestTime(store, elderly) # Null =>
          /\ Len(CurrentData(store, elderly, LatestTime(store, elderly))) > 0
          /\ CurrentVariance(CurrentData(store, elderly, LatestTime(store, elderly))).vd > 0
    /\ riskResp.success =>
          /\ Len(riskResp.snapshot) > 0
          /\ \E i \in 1..Len(riskResp.snapshot) :
                riskResp.snapshot[i].temperature_f = riskResp.current_stats.min_temp
          /\ \E i \in 1..Len(riskResp.snapshot) :
                riskResp.snapshot[i].temperature_f = riskResp.current_stats.max_temp
          /\ \E i \in 1..Len(riskResp.snapshot) :
                riskResp.snapshot[i].elderly_count = MaxElderlyOf(riskResp.snapshot)

\* a report whose snapshot lies before later observations of a tract without elderly
\* residents: the newest rows of the table are not part of it
C23_Witness ==
    /\ riskResp.success
    /\ \E r \in Rows : /\ store[r] > 0 /\ elderly[r[1]] = 0
                       /\ r[2] > riskResp.timestamp + ToleranceMinutes
    /\ Len(riskResp.snapshot) = 1

\* the sum of the four counts (elderly sums) of a group array
CountTotal(groups) == SumSet(Tiers, [tier \in Tiers |-> groups[tier].count])
ElderlyTotal(groups) == SumSet(Tiers, [tier \in Tiers |-> groups[tier].elderly])

\* the records of a snapshot with z >= 0.5 (z <= -0.5) under the baseline B
HotRecords(data, B) ==
    {i \in 1..Len(data) : B.vn > 0 /\ NumGe(ZOf(data[i].temperature_f, B), 1, 2, B.vn, B.vd)}
ColdRecords(data, B) ==
    {i \in 1..Len(data) : B.vn > 0 /\ NumLe(ZOf(data[i].temperature_f, B), -1, 2, B.vn, B.vd)}

\* what one record of the snapshot adds to the four group arrays
CountedAlone(data, i, B) ==
    ClassifyTract([heatDeviation |-> EmptyGroups, coldDeviation |-> EmptyGroups,
                   heatVulnerability |-> EmptyGroups, coldVulnerability |-> EmptyGroups],
                  data[i], B, MaxElderlyOf(data))

\* no record of the snapshot adds to a heat and to a cold deviation group, and the
\* deviation counts add up to the numbers of hot and of cold records
DeviationPartition(heat, cold, data, B) ==
    /\ \A i \in 1..Len(data) :
          LET one == CountedAlone(data, i, B)
          IN  /\ CountTotal(one.heatDeviation) + CountTotal(one.coldDeviation) <= 1
              /\ CountTotal(one.heatDeviation) = 1 <=> i \in HotRecords(data, B)
              /\ CountTotal(one.coldDeviation) = 1 <=> i \in ColdRecords(data, B)
    /\ HotRecords(data, B) \cap ColdRecords(data, B) = {}
    /\ CountTotal(heat) = Cardinality(HotRecords(data, B))
    /\ CountTotal(cold) = Cardinality(ColdRecords(data, B))

\* the states in which a report has just been received; riskResp is written by
\* FetchRiskStatistics and FetchCumulativeDeviations only, so every report is seen in
\* such a state
ReportReceived == pc \in {"statistics", "cumulative"} /\ riskResp.success
ReportsAreReceived == [][riskResp' # riskResp => pc' \in {"statistics", "cumulative"}]_vars

\* C24: in one report of GetRiskStatistics no snapshot record is counted in both a heat
\* group and a cold group, and the four heat (cold) deviation counts sum to exactly the
\* number of snapshot records with z >= 0.5 (z <= -0.5).
C24_DeviationCountsPartition ==
    /\ ReportReceived =>
          DeviationPartition(riskResp.heat_deviation, riskResp.cold_deviation,
                             riskResp.snapshot, riskResp.baseline)
    /\ UnitDone =>
          DeviationPartition(unit.counts.heatDeviation, unit.counts.coldDeviation,
                             UnitSnapshot(unit.temp, unit.e), unit.B)

\* a report over one hot and one cold record (z = 0.7 and z = -0.7)
C24_Witness ==
    /\ riskResp.success
    /\ Len(riskResp.snapshot) = 2
    /\ CountTotal(riskResp.heat_deviation) = 1
    /\ CountTotal(riskResp.cold_deviation) = 1

\* a record adds to at most one vulnerability group per sign, and only if it adds to a
\* deviation group of that sign; the vulnerability totals stay within the deviation totals
VulnerabilityWithinDeviation(counts, data, B) ==
    /\ \A i \in 1..Len(data) :
          LET one == CountedAlone(data, i, B)
          IN  /\ CountTotal(one.heatVulnerability) <= CountTotal(one.heatDeviation)
              /\ CountTotal(one.coldVulnerability) <= CountTotal(one.coldDeviation)
              /\ CountTotal(one.heatDeviation) <= 1
              /\ CountTotal(one.coldDeviation) <= 1
              /\ ElderlyTotal(one.heatVulnerability) <= ElderlyTotal(one.heatDeviation)
              /\ ElderlyTotal(one.coldVulnerability) <= ElderlyTotal(one.coldDeviation)
    /\ CountTotal(counts.heatVulnerability) <= CountTotal(counts.heatDeviation)
    /\ CountTotal(counts.coldVulnerability) <= CountTotal(counts.coldDeviation)
    /\ ElderlyTotal(counts.heatVulnerability) <= ElderlyTotal(counts.heatDeviation)
    /\ ElderlyTotal(counts.coldVulnerability) <= ElderlyTotal(counts.coldDeviation)

\* C25: in one report of GetRiskStatistics each snapshot record is counted in at most
\* one vulnerability tier per sign, and the sum of the four heat (cold) vulnerability
\* counts never exceeds the sum of the four heat (cold) deviation counts; likewise for
\* the elderly sums.
C25_VulnerabilityWithinDeviation ==
    /\ ReportReceived =>
          VulnerabilityWithinDeviation(
              [heatDeviation |-> riskResp.heat_deviation,
               coldDeviation |-> riskResp.cold_deviation,
               heatVulnerability |-> riskResp.heat_vulnerability,
               coldVulnerability |-> riskResp.cold_vulnerability],
              riskResp.snapshot, riskResp.baseline)
    /\ UnitDone =>
          VulnerabilityWithinDeviation(unit.counts, UnitSnapshot(unit.temp, unit.e), unit.B)

\* a record at z = 0.5 with one elderly resident of five: risk score 0.38, counted in the
\* heat deviation group elevated and in no vulnerability group
C25_Witness ==
    /\ UnitDone /\ unit.B.vn > 0 /\ unit.temp = 85 /\ unit.e = 1
    /\ unit.counts.heatDeviation["elevated"] = [count |-> 1, elderly |-> 1]
    /\ CountTotal(unit.counts.heatVulnerability) = 0

\* C26: for every tract of the current round, the heat / cold vulnerability tier drawn by
\* the client (from global_averages, the boundary file's elderly counts and the data of
\* GetCurrentObservations) equals the vulnerability tier under which GetRiskStatistics
\* counted that tract; client and backend use the same maxElderly and the same set of
\* tracts.
C26_VulnerabilityLayersMatchCounts ==
    /\ (LayersDrawn /\ riskResp.success /\ layers.heatVulnerability.created
                    /\ layers.coldVulnerability.created) =>
          /\ \A i \in 1..Len(riskResp.snapshot) :
                LET t == riskResp.snapshot[i].tract_id
                IN  /\ layers.heatVulnerability.tier[t] =
                          HeatScoreTierOfRow(riskResp.snapshot[i], SnapshotMaxElderly,
                                             riskResp.baseline)
                    /\ layers.coldVulnerability.tier[t] =
                          ColdScoreTierOfRow(riskResp.snapshot[i], SnapshotMaxElderly,
                                             riskResp.baseline)
          /\ \A t \in Tracts \ SnapshotTracts :
                /\ layers.heatVulnerability.tier[t] = NoTier
                /\ layers.coldVulnerability.tier[t] = NoTier
          /\ GeoMaxElderly = SnapshotMaxElderly
    /\ (UnitDone /\ unit.B.vn > 0) =>
          /\ unit.heatVulnerability.tier[1] = GroupOf(unit.lone_counts.heatVulnerability)
          /\ unit.coldVulnerability.tier[1] = GroupOf(unit.lone_counts.coldVulnerability)
          /\ unit.heatVulnerability.tier[2] = NoTier
          /\ unit.coldVulnerability.tier[2] = NoTier

\* The part of C26 that holds: when the boundary file's largest elderly count is that of
\* the observed tract, client and backend agree on the tract of the unit run.
C26_SameMaxElderly ==
    (UnitDone /\ unit.B.vn > 0 /\ unit.e = 5) =>
       /\ unit.heatVulnerability.tier[1] = GroupOf(unit.lone_counts.heatVulnerability)
       /\ unit.coldVulnerability.tier[1] = GroupOf(unit.lone_counts.coldVulnerability)

\* the cumulative layers colour every tract of the list by the tier in which the backend
\* counts its risk, and leave every other tract as background
LayersShowTiers(heatLayer, coldLayer, tracts, B) ==
    /\ \A i \in 1..Len(tracts) :
          /\ heatLayer.tier[tracts[i].tract_id] = RiskTier(tracts[i].cumulative_heat_risk, B)
          /\ coldLayer.tier[tracts[i].tract_id] = RiskTier(tracts[i].cumulative_cold_risk, B)
    /\ \A t \in Tracts :
          (\A i \in 1..Len(tracts) : tracts[i].tract_id # t) =>
             heatLayer.tier[t] = NoTier /\ coldLayer.tier[t] = NoTier

\* C27: the cumulative heat / cold layers of the map colour a tract with a tier colour
\* exactly when the backend counted that tract in a cumulative tier, and with the colour
\* of that tier: a tract whose cumulative risk is below 0.5 is drawn as background, and a
\* tract at or above 0.5 is never drawn as background.
C27_CumulativeLayersMatchTiers ==
    /\ (LayersDrawn /\ riskResp.success /\ layers.cumulativeHeat.created
                    /\ layers.cumulativeCold.created) =>
          LayersShowTiers(layers.cumulativeHeat, layers.cumulativeCold, riskResp.tracts,
                          riskResp.baseline)
    /\ UnitDone =>
          LayersShowTiers(unit.cumulativeHeat, unit.cumulativeCold, unit.tracts, unit.B)

\* The part of C27 that holds: a tract counted in a cumulative tier is drawn in the
\* colour of that tier when at least a tenth of its observations exceed the threshold,
\* and a tract with a risk below 0.3 is drawn as background.
C27_ColourOfCountedTier ==
    UnitDone =>
       \A i \in 1..Len(unit.tracts) :
          LET row == unit.tracts[i]
          IN  /\ (RiskTier(row.cumulative_heat_risk, unit.B) # NoTier
                    /\ 10 * row.heat_frequency.n >= row.heat_frequency.d) =>
                    unit.cumulativeHeat.tier[row.tract_id] =
                       RiskTier(row.cumulative_heat_risk, unit.B)
              /\ (RiskTier(row.cumulative_cold_risk, unit.B) # NoTier
                    /\ 10 * row.cold_frequency.n >= row.cold_frequency.d) =>
                    unit.cumulativeCold.tier[row.tract_id] =
                       RiskTier(row.cumulative_cold_risk, unit.B)
              /\ ~NumGe(row.cumulative_heat_risk, 3, 10, unit.B.vn, unit.B.vd) =>
                    unit.cumulativeHeat.tier[row.tract_id] = NoTier
              /\ ~NumGe(row.cumulative_cold_risk, 3, 10, unit.B.vn, unit.B.vd) =>
                    unit.cumulativeCold.tier[row.tract_id] = NoTier

\* C28: initializeSystem always runs to completion once the boundary file has loaded,
\* whatever the outcome of the two backend endpoints: when GetRiskStatistics or
\* GetCurrentObservations fails or answers success false the affected layers are simply
\* null and no layer-creation step raises an error; and no vulnerability layer is
\* created before the baseline fetch has finished.
C28_InitializeSystemCompletes ==
    /\ pc # "failed"
    /\ LayersDrawn => pc = "initialized"
    /\ (layers.heatVulnerability.created \/ layers.coldVulnerability.created) =>
          Statistics /\ historicBaseline.loaded

\* The part of C28 that holds: a failure of GetCurrentObservations leaves the layers
\* null without an error, the layer creation only fails when GetRiskStatistics has not
\* answered with success, and the vulnerability layers are created after the baseline
\* has been loaded.
C28_TemperatureFailureIsHarmless ==
    /\ pc = "failed" => ~riskResp.success /\ ~cumulativeDeviationData.declared
    /\ (LayersDrawn /\ riskResp.success) => pc = "initialized"
    /\ (LayersDrawn /\ ~latestResp.success) =>
          /\ Len(currentTemperatureData) = 0
          /\ \A l \in {"heatVulnerability", "coldVulnerability", "heatDeviation",
                       "coldDeviation"} : ~layers[l].created
    /\ (layers.heatVulnerability.created \/ layers.coldVulnerability.created) =>
          Statistics /\ historicBaseline.loaded

\* C29: map synchronisation never ping-pongs and converges: a moveend on one map causes
\* at most one setView on the other map while syncInProgress is set (the echoed moveend
\* is ignored), and after any finite sequence of user moves on either map, once all
\* timers have fired, both maps show the same centre and zoom.
C29_MapsConverge ==
    /\ maps.setViews <= 1
    /\ (maps.timers = 0 /\ ~maps.syncInProgress) =>
          maps.view["map2018"] = maps.view["map2024"]

\* The part of C29 that holds: one moveend causes at most one setView, the echoed moveend
\* is ignored, one timer at most is pending, and it is pending exactly while
\* syncInProgress is set.
C29_NoPingPong ==
    /\ maps.setViews <= 1
    /\ maps.timers <= 1
    /\ maps.syncInProgress <=> maps.timers = 1

\* C30: after any sequence of typed inputs and out-of-order search responses the result
\* list shown corresponds to the most recently typed query: only the last input within
\* the 300 ms window triggers a request, a query shorter than 3 characters leaves the
\* list hidden, and a response to an earlier query never replaces or re-opens the list
\* of a later one.
C30_ListOfLatestQuery ==
    /\ search.list.active => search.list.seq = search.applied
    /\ \A r \in search.pending : Len(r.query) >= MinQueryLength
    /\ Cardinality(search.pending) <= search.calls

\* The part of C30 that holds: a request is sent only when the timer of the input
\* handler fires, with the text the box holds then and only if it has three characters
\* or more, and the results displayed are never those of a request that was not sent.
C30_Debounce ==
    /\ \A r \in search.pending :
          /\ Len(r.query) >= MinQueryLength
          /\ r.seq >= 1 /\ r.seq <= search.calls
    /\ Cardinality(search.pending) <= search.calls
    /\ search.list.seq <= search.calls
    /\ search.applied <= search.calls
    /\ search.list.active => search.list.seq >= 1

\* while the timer of the input handler is pending no request goes out, and a later input
\* replaces it: the timer's call of searchLocation is the only step that adds a request
C30_OnlyTimerSends ==
    [][search'.pending \subseteq search.pending \/ search.searchTimeout]_vars

============================================================================
